---- MODULE Spec2Model ----
(***************************************************************************)
(* Request admission and scheduling core of Target-Monitor:                *)
(*   src/core/rate_limiter.py     TokenBucket, EnhancedRateLimiter and the *)
(*                                limiter's own CircuitBreaker             *)
(*   src/core/circuit_breaker.py  the standalone CircuitBreaker            *)
(*   src/core/request_queue.py    SmartRequestQueue and its worker threads *)
(*                                                                         *)
(* Time is the wall clock in whole seconds (time.time()).  Token counts    *)
(* are floats in the source; here they are kept exactly, as integers in    *)
(* units of 1/SecondsPerDay of a token, so that the three refill rates     *)
(* (per-minute/60, per-hour/3600, per-day/86400 tokens per second) are     *)
(* whole numbers of units per second.                                      *)
(***************************************************************************)
EXTENDS Integers, Sequences, FiniteSets, Bags, TLC

\* ---------------------------------------------------------------- bounds
\* RateLimitConfig fields (constructor inputs), chosen small so that every
\* window can run dry within the explored horizon.
max_requests_per_minute == 2
max_requests_per_hour == 3
max_requests_per_day == 4
burst_allowance == 0
\* Clock steps (seconds) and horizons of the explored runs.
ShortTick == 15
LongTick == 150
MaxNowBucket == 60
MaxNowBreaker == 600
MaxNowLimiter == 75
MaxNowAdmission == 31
\* Cap on the number of can_make_request calls made by concurrent callers.
MaxCalls == 4
\* Cap on the number of admissions granted in one explored run.
MaxGranted == 4
\* Largest argument of a direct TokenBucket.consume call.
MaxConsume == 2
\* SmartRequestQueue runs: jobs submitted, start() and stop() calls made,
\* callbacks that fail.
MaxJobs == 3
MaxStarts == 1
MaxStops == 1
MaxFailed == 2
MaxNowQueue == 151
\* The drain: force_process_all returns at most MaxDrains times, over at most
\* MaxDrainJobs jobs and MaxDrainFailed failed executions, up to MaxNowDrain.
MaxDrains == 1
MaxDrainJobs == 3
MaxDrainFailed == 1
MaxNowDrain == 151
\* The shutdown: at most MaxShutdownJobs jobs.
MaxShutdownJobs == 2
\* The pacing: at most MaxPacingJobs jobs.
MaxPacingJobs == 2
\* Runs in which start() is called again on a started queue.
MaxRestarts == 2
MaxNowRestart == 151
MaxNowSchedule == 31
\* Runs in which every callback fails.
MaxRetryJobs == 2
MaxRetryFailed == 5
MaxNowRetry == 601
\* ProxyManager runs: endpoints in the proxy file, calls made (around a
\* recovery pass, where fewer kinds of calls are made, more of them),
\* get_next_proxy calls that returned an endpoint.
NumProxies == 4
MaxProxyOps == 5
MaxRecoveryOps == 7
MaxOpsCount == 8
MaxStatsOps == 3
MaxReports == 2
MaxSoftFailures == 1
MaxIndex == 2

\* ------------------------------------------------------ program constants
SecondsPerMinute == 60
SecondsPerHour == 3600
SecondsPerDay == 86400
failure_threshold == 5
recovery_timeout == 300
success_threshold == 2
max_concurrent == 2
max_retries == 3
LOW == 3
NORMAL == 2
CRITICAL == 0
SentinelPriority == 0
MaxSchedSleep == 1
RetryBase == 30
RetryCap == 300
TrackerHours == 24
SuccessWindowMinutes == 60
consecutive_failures_threshold == 3
performance_window == 100
DefaultWeight == 5
ban_duration == 3600
RecoveryAge == 600
CleanupAge == 86400

\* One token, in stored units.
Unit == SecondsPerDay

Buckets == {"minute", "hour", "day"}

\* last_failure_time = None
None == -1

Min(a, b) == IF a <= b THEN a ELSE b
Max(a, b) == IF a >= b THEN a ELSE b

VARIABLES
  now,              \* time.time(), seconds
  tokens,           \* TokenBucket.tokens of the minute/hour/day buckets
  last_refill,      \* TokenBucket.last_refill
  rl_breaker,       \* EnhancedRateLimiter.circuit_breaker (rate_limiter.CircuitBreaker)
  breaker,          \* a standalone circuit_breaker.CircuitBreaker
  last,             \* history: the last call made, its result and the state it started from
  hist,             \* history: runs of consecutive breaker calls (see FailureRun,
                    \* HalfOpenSuccesses) and the number of admissions granted
  adm,              \* the position and locals of each thread inside can_make_request
  requests,         \* RequestTracker.requests: (timestamp, success), oldest first
  running,          \* SmartRequestQueue.running
  threads,          \* the live worker and retry-processor threads, as a bag of
                    \* their positions and locals
  request_queue,    \* the PriorityQueue, as a bag of entries (priority value, job)
  retry_queue,      \* the retry Queue, first in first out
  jobs,             \* the QueuedRequest objects created by add_request
  stats,            \* active_requests, total_processed, failed_requests
  adaptive_delay,   \* SmartRequestQueue.adaptive_delay, an exact fraction
  failed_proxies,   \* ProxyManager.failed_proxies
  banned_proxies,   \* ProxyManager.banned_proxies
  last_proxy_index, \* ProxyManager.last_proxy_index
  proxy_health,     \* ProxyManager.proxy_health, per endpoint
  plast,            \* history: the last ProxyManager call and its result
  phist,            \* history: ProxyManager calls made, failed results in a row
  lock,             \* ProxyManager.lock, a threading.Lock: Free or its holder
  pstat             \* the thread that asks for the health summary: its call and
                    \* position, and the number of reports it has got

qvars == <<requests, running, threads, request_queue, retry_queue, jobs, stats,
           adaptive_delay>>

pvars == <<failed_proxies, banned_proxies, last_proxy_index, proxy_health, plast, phist,
           lock, pstat>>

vars == <<now, tokens, last_refill, rl_breaker, breaker, last, hist, adm, qvars, pvars>>

\* ------------------------------------------------------------ TokenBucket
\* EnhancedRateLimiter.__init__: the capacity of each window, in tokens.
capacity(b) ==
  CASE b = "minute" -> max_requests_per_minute + burst_allowance
    [] b = "hour" -> max_requests_per_hour
    [] b = "day" -> max_requests_per_day

\* EnhancedRateLimiter.__init__: refill_rate in stored units per second
\* (max_requests / window seconds tokens per second).
refill_rate(b) ==
  CASE b = "minute" -> max_requests_per_minute * (Unit \div SecondsPerMinute)
    [] b = "hour" -> max_requests_per_hour * (Unit \div SecondsPerHour)
    [] b = "day" -> max_requests_per_day * (Unit \div SecondsPerDay)

\* TokenBucket.consume, lines 35-39: the token count after the lazy refill.
refilled(b, tok, lastref, t) ==
  Min(capacity(b) * Unit, tok + (t - lastref) * refill_rate(b))

\* TokenBucket.consume, line 41: are n tokens present after the refill?
consume_ok(b, tok, lastref, t, n) == refilled(b, tok, lastref, t) >= n * Unit

\* Mutant: a failed consume still removes what is there.
consume_tokens_drain(b, tok, lastref, t, n) ==
  IF consume_ok(b, tok, lastref, t, n)
    THEN refilled(b, tok, lastref, t) - n * Unit
    ELSE 0

\* TokenBucket.consume, lines 41-44: the token count the call leaves.
consume_tokens(b, tok, lastref, t, n) ==
  IF consume_ok(b, tok, lastref, t, n)
    THEN refilled(b, tok, lastref, t) - n * Unit
    ELSE refilled(b, tok, lastref, t)

\* Durations and deadlines need not be whole seconds: they are kept exactly,
\* as integers in units of 1/TimeScale of a second, TimeScale being the least
\* common multiple of the three refill rates.
RECURSIVE GCD(_, _)
GCD(a, b) == IF b = 0 THEN a ELSE GCD(b, a % b)
LCM(a, b) == (a \div GCD(a, b)) * b
TimeScale == LCM(refill_rate("minute"), LCM(refill_rate("hour"), refill_rate("day")))
Seconds(k) == k * TimeScale

\* TokenBucket.wait_time(1): 0 if a token is there, else (1 - tokens) / refill_rate.
wait_time(b, tok) ==
  IF tok >= Unit THEN 0 ELSE (Unit - tok) * (TimeScale \div refill_rate(b))

\* EnhancedRateLimiter.can_make_request, lines 140-142: the refund of one bucket.
refund_tokens(b, tok) == IF tok < capacity(b) * Unit THEN tok + Unit ELSE tok

\* History of a breaker: the number of consecutive record_failure calls made
\* since the breaker was Closed with failure_count 0 (0: no such run is going on).
FailureRun(run, pre) ==
  IF pre.state = "CLOSED" /\ pre.failure_count = 0 THEN 1
  ELSE IF run > 0 THEN run + 1 ELSE 0

\* History of a breaker: the number of record_success calls made in HalfOpen
\* since the breaker last entered HalfOpen.
HalfOpenSuccesses(n, pre, post, success) ==
  IF pre.state # "HALF_OPEN" /\ post.state = "HALF_OPEN" THEN 0
  ELSE IF success /\ pre.state = "HALF_OPEN" THEN n + 1 ELSE n

\* History of a breaker: where it is in a sequence of calls that began at
\* (Closed, failure_count 0) and in which no two failures are consecutive:
\* 0 after a success or at the beginning, 1 after a failure, 2 once the
\* sequence is broken (until the breaker is back at (Closed, 0)).
Alternation(ph, post, failure) ==
  IF failure THEN (IF ph = 0 THEN 1 ELSE 2)
  ELSE IF ph < 2 THEN 0
  ELSE IF post.state = "CLOSED" /\ post.failure_count = 0 THEN 0 ELSE 2

\* The history record: every action names itself and snapshots the state
\* it started from.
Last(name, b, n, ok) ==
  [name |-> name, bucket |-> b, n |-> n, ok |-> ok, at |-> now, wait |-> 0,
   pre_tokens |-> tokens, pre_refill |-> last_refill,
   pre_rl |-> rl_breaker, pre_cb |-> breaker]

\* TokenBucket.consume(n) on bucket b, called directly.
consume(b, n) ==
  /\ tokens' = [tokens EXCEPT ![b] = consume_tokens(b, tokens[b], last_refill[b], now, n)]
  /\ last_refill' = [last_refill EXCEPT ![b] = now]
  /\ last' = Last("consume", b, n, consume_ok(b, tokens[b], last_refill[b], now, n))
  /\ UNCHANGED <<now, rl_breaker, breaker, hist, adm, qvars, pvars>>

\* The clock advances by d seconds, up to the horizon max.
Tick(d, max) ==
  /\ now + d <= max
  /\ now' = now + d
  /\ last' = Last("tick", "none", d, TRUE)
  /\ UNCHANGED <<tokens, last_refill, rl_breaker, breaker, hist, adm, qvars, pvars>>

\* --------------------------------------- rate_limiter.CircuitBreaker
\* failure_count is capped in the guards to keep the state space finite.
MaxFailures == failure_threshold + 2

\* Mutant: the breaker opens one failure late (> instead of >=).
rl_record_failure_state_late(cb, t) ==
  [cb EXCEPT !.failure_count = @ + 1,
             !.last_failure_time = t,
             !.state = IF cb.failure_count + 1 > failure_threshold THEN "OPEN" ELSE @]

rl_record_failure_state(cb, t) ==
  [cb EXCEPT !.failure_count = @ + 1,
             !.last_failure_time = t,
             !.state = IF cb.failure_count + 1 >= failure_threshold THEN "OPEN" ELSE @]

\* Mutant: a success in Closed resets failure_count.
rl_record_success_state_reset(cb) ==
  IF cb.state = "OPEN" THEN cb ELSE [cb EXCEPT !.state = "CLOSED", !.failure_count = 0]

rl_record_success_state(cb) ==
  IF cb.state = "HALF_OPEN"
    THEN [cb EXCEPT !.state = "CLOSED", !.failure_count = 0]
    ELSE IF cb.state = "CLOSED"
      THEN [cb EXCEPT !.failure_count = Max(0, @ - 1)]
      ELSE cb

\* `self.last_failure_time and now - last_failure_time >= recovery_timeout`
rl_recovery_due(cb, t) ==
  /\ cb.last_failure_time # None
  /\ cb.last_failure_time # 0
  /\ t - cb.last_failure_time >= recovery_timeout

\* Mutant: the cooldown comparison is left out of the recovery test.
rl_is_open_state_eager(cb, t) ==
  IF cb.state = "OPEN" /\ cb.last_failure_time # None
    THEN [cb EXCEPT !.state = "HALF_OPEN"]
    ELSE cb

\* is_open: the state it leaves, and the value it returns.
rl_is_open_state(cb, t) ==
  IF cb.state = "OPEN" /\ rl_recovery_due(cb, t)
    THEN [cb EXCEPT !.state = "HALF_OPEN"]
    ELSE cb

rl_is_open_result(cb, t) == cb.state = "OPEN" /\ ~rl_recovery_due(cb, t)

\* Mutant: the time elapsed since the last failure, not the time remaining.
rl_wait_time_elapsed(cb, t) ==
  IF cb.last_failure_time # None /\ cb.last_failure_time # 0
    THEN t - cb.last_failure_time
    ELSE 0

\* CircuitBreaker.wait_time of the limiter's breaker, seconds.
rl_wait_time(cb, t) ==
  IF cb.last_failure_time # None /\ cb.last_failure_time # 0
    THEN Max(0, recovery_timeout - (t - cb.last_failure_time))
    ELSE 0

RL_record_failure ==
  /\ rl_breaker.failure_count < MaxFailures
  /\ rl_breaker' = rl_record_failure_state(rl_breaker, now)
  /\ last' = Last("rl_record_failure", "none", 0, TRUE)
  /\ hist' = [hist EXCEPT !.rl_run = FailureRun(@, rl_breaker),
                           !.rl_half = HalfOpenSuccesses(@, rl_breaker, rl_breaker', FALSE),
                           !.rl_alt = Alternation(@, rl_breaker', TRUE)]
  /\ UNCHANGED <<now, tokens, last_refill, breaker, adm, qvars, pvars>>

RL_record_success ==
  /\ rl_breaker' = rl_record_success_state(rl_breaker)
  /\ last' = Last("rl_record_success", "none", 0, TRUE)
  /\ hist' = [hist EXCEPT !.rl_run = 0,
                           !.rl_half = HalfOpenSuccesses(@, rl_breaker, rl_breaker', TRUE),
                           !.rl_alt = Alternation(@, rl_breaker', FALSE)]
  /\ UNCHANGED <<now, tokens, last_refill, breaker, adm, qvars, pvars>>

RL_is_open ==
  /\ rl_breaker' = rl_is_open_state(rl_breaker, now)
  /\ last' = Last("rl_is_open", "none", 0, rl_is_open_result(rl_breaker, now))
  /\ hist' = [hist EXCEPT !.rl_run = 0,
                           !.rl_half = HalfOpenSuccesses(@, rl_breaker, rl_breaker', FALSE)]
  /\ UNCHANGED <<now, tokens, last_refill, breaker, adm, qvars, pvars>>

\* ------------------------------------- circuit_breaker.CircuitBreaker
cb_recovery_due(cb, t) ==
  /\ cb.last_failure_time # None
  /\ cb.last_failure_time # 0
  /\ t - cb.last_failure_time >= recovery_timeout

cb_can_execute_state(cb, t) ==
  IF cb.state = "OPEN" /\ cb_recovery_due(cb, t)
    THEN [cb EXCEPT !.state = "HALF_OPEN", !.success_count = 0]
    ELSE cb

cb_can_execute_result(cb, t) == cb.state # "OPEN" \/ cb_recovery_due(cb, t)

cb_record_success_state(cb) ==
  IF cb.state = "HALF_OPEN"
    THEN IF cb.success_count + 1 >= success_threshold
      THEN [cb EXCEPT !.success_count = @ + 1, !.state = "CLOSED", !.failure_count = 0]
      ELSE [cb EXCEPT !.success_count = @ + 1]
    ELSE IF cb.state = "CLOSED"
      THEN [cb EXCEPT !.failure_count = Max(0, @ - 1)]
      ELSE cb

\* Mutant: only a Closed breaker can open.
cb_record_failure_state_closed_only(cb, t) ==
  [cb EXCEPT !.failure_count = @ + 1,
             !.last_failure_time = t,
             !.state = IF /\ cb.state = "CLOSED"
                          /\ cb.failure_count + 1 >= failure_threshold
                         THEN "OPEN" ELSE @]

cb_record_failure_state(cb, t) ==
  [cb EXCEPT !.failure_count = @ + 1,
             !.last_failure_time = t,
             !.state = IF /\ cb.state \in {"CLOSED", "HALF_OPEN"}
                          /\ cb.failure_count + 1 >= failure_threshold
                         THEN "OPEN" ELSE @]

cb_reset_state ==
  [state |-> "CLOSED", failure_count |-> 0, success_count |-> 0, last_failure_time |-> None]

CB_can_execute ==
  /\ breaker' = cb_can_execute_state(breaker, now)
  /\ last' = Last("cb_can_execute", "none", 0, cb_can_execute_result(breaker, now))
  /\ hist' = [hist EXCEPT !.cb_run = 0,
                           !.cb_half = HalfOpenSuccesses(@, breaker, breaker', FALSE)]
  /\ UNCHANGED <<now, tokens, last_refill, rl_breaker, adm, qvars, pvars>>

CB_record_success ==
  /\ breaker' = cb_record_success_state(breaker)
  /\ last' = Last("cb_record_success", "none", 0, TRUE)
  /\ hist' = [hist EXCEPT !.cb_run = 0,
                           !.cb_half = HalfOpenSuccesses(@, breaker, breaker', TRUE),
                           !.cb_alt = Alternation(@, breaker', FALSE)]
  /\ UNCHANGED <<now, tokens, last_refill, rl_breaker, adm, qvars, pvars>>

CB_record_failure ==
  /\ breaker.failure_count < MaxFailures
  /\ breaker' = cb_record_failure_state(breaker, now)
  /\ last' = Last("cb_record_failure", "none", 0, TRUE)
  /\ hist' = [hist EXCEPT !.cb_run = FailureRun(@, breaker),
                           !.cb_half = HalfOpenSuccesses(@, breaker, breaker', FALSE),
                           !.cb_alt = Alternation(@, breaker', TRUE)]
  /\ UNCHANGED <<now, tokens, last_refill, rl_breaker, adm, qvars, pvars>>

CB_reset ==
  /\ breaker' = cb_reset_state
  /\ last' = Last("cb_reset", "none", 0, TRUE)
  /\ hist' = [hist EXCEPT !.cb_run = 0,
                           !.cb_half = HalfOpenSuccesses(@, breaker, breaker', FALSE),
                           !.cb_alt = 0]
  /\ UNCHANGED <<now, tokens, last_refill, rl_breaker, adm, qvars, pvars>>

\* ---------------------------------------------------- EnhancedRateLimiter
\* can_make_request, lines 131-132: every window is asked for one token.
consumed(tok, lastref, t) ==
  [b \in Buckets |-> consume_tokens(b, tok[b], lastref[b], t, 1)]

\* can_make_request, lines 129-133: did every window give its token?
can_proceed(tok, lastref, t) ==
  \A b \in Buckets : consume_ok(b, tok[b], lastref[b], t, 1)

\* can_make_request, lines 138-142: the token counts the call leaves.
admitted_tokens(tok, lastref, t) ==
  IF can_proceed(tok, lastref, t)
    THEN consumed(tok, lastref, t)
    ELSE [b \in Buckets |-> refund_tokens(b, consumed(tok, lastref, t)[b])]

\* can_make_request, lines 128-136: the largest wait of the windows that failed.
max_wait(tok, lastref, t) ==
  LET w(b) == IF consume_ok(b, tok[b], lastref[b], t, 1)
                THEN 0
                ELSE wait_time(b, consumed(tok, lastref, t)[b])
  IN Max(w("minute"), Max(w("hour"), w("day")))

\* can_make_request, run to completion: the `allowed` it returns,
cmr_allowed ==
  ~rl_is_open_result(rl_breaker, now) /\ can_proceed(tokens, last_refill, now)

\* the wait it returns (lines 119, 144),
cmr_wait ==
  IF rl_is_open_result(rl_breaker, now)
    THEN Seconds(rl_wait_time(rl_breaker, now))
    ELSE max_wait(tokens, last_refill, now)

\* and what it does to the breaker and the buckets.
cmr_effect ==
  /\ rl_breaker' = rl_is_open_state(rl_breaker, now)
  /\ tokens' = IF rl_is_open_result(rl_breaker, now)
                 THEN tokens
                 ELSE admitted_tokens(tokens, last_refill, now)
  /\ last_refill' = IF rl_is_open_result(rl_breaker, now)
                      THEN last_refill
                      ELSE [b \in Buckets |-> now]

\* can_make_request() by a single caller, run to completion.
can_make_request ==
  /\ hist.granted < MaxGranted
  /\ cmr_effect
  /\ last' = [Last("can_make_request", "none", 0, cmr_allowed) EXCEPT !.wait = cmr_wait]
  /\ hist' = [hist EXCEPT
       !.rl_run = 0,
       !.rl_half = HalfOpenSuccesses(@, rl_breaker, rl_breaker', FALSE),
       !.granted = IF cmr_allowed THEN @ + 1 ELSE @]
  /\ UNCHANGED <<now, breaker, adm, qvars, pvars>>

\* ------------------------- can_make_request, statement by statement
\* The worker threads of the queue call can_make_request concurrently.  Each
\* TokenBucket.consume and TokenBucket.wait_time runs under the bucket's lock
\* and is one step; the refund of a bucket (lines 141-142) takes no lock and
\* is one step here.
Callers == 1..max_concurrent

\* The order of the `buckets` list.
BucketSeq == <<"minute", "hour", "day">>

\* A call: where it is, its loop index and locals; and, as history, whether
\* every bucket held a token when it began (full).
IdleCall == [pc |-> "idle", i |-> 1, can_proceed |-> TRUE, max_wait |-> 0, full |-> FALSE]

\* The end of one iteration of the consume loop (lines 131-138).
next_bucket(a) ==
  IF a.i < Len(BucketSeq) THEN [a EXCEPT !.pc = "consume", !.i = @ + 1]
  ELSE IF a.can_proceed THEN [a EXCEPT !.pc = "return"]
  ELSE [a EXCEPT !.pc = "refund", !.i = 1]

\* Lines 118-129: the breaker test and the locals.
CMR_begin(c) ==
  /\ adm[c].pc = "idle"
  /\ hist.calls < MaxCalls
  /\ rl_breaker' = rl_is_open_state(rl_breaker, now)
  /\ IF rl_is_open_result(rl_breaker, now)
       THEN /\ last' = [Last("cmr_return", "none", c, FALSE)
                          EXCEPT !.wait = Seconds(rl_wait_time(rl_breaker, now))]
            /\ hist' = [hist EXCEPT !.rl_run = 0, !.calls = @ + 1]
            /\ UNCHANGED adm
       ELSE /\ last' = Last("cmr_begin", "none", c, TRUE)
            /\ hist' = [hist EXCEPT
                 !.rl_run = 0,
                 !.rl_half = HalfOpenSuccesses(@, rl_breaker, rl_breaker', FALSE),
                 !.calls = @ + 1]
            /\ adm' = [adm EXCEPT ![c] =
                 [IdleCall EXCEPT !.pc = "consume",
                                  !.full = can_proceed(tokens, last_refill, now)]]
  /\ UNCHANGED <<now, tokens, last_refill, breaker, qvars, pvars>>

\* Line 132: bucket.consume(1) on the current bucket.
CMR_consume(c) ==
  LET b == BucketSeq[adm[c].i]
      ok == consume_ok(b, tokens[b], last_refill[b], now, 1)
  IN /\ adm[c].pc = "consume"
     /\ tokens' = [tokens EXCEPT ![b] = consume_tokens(b, tokens[b], last_refill[b], now, 1)]
     /\ last_refill' = [last_refill EXCEPT ![b] = now]
     /\ adm' = [adm EXCEPT ![c] =
          IF ok THEN next_bucket(adm[c])
          ELSE [adm[c] EXCEPT !.pc = "wait_time", !.can_proceed = FALSE]]
     /\ last' = Last("cmr_consume", b, c, ok)
     /\ UNCHANGED <<now, rl_breaker, breaker, hist, qvars, pvars>>

\* Lines 134-135: bucket.wait_time(1) of the bucket that failed.
CMR_wait_time(c) ==
  LET b == BucketSeq[adm[c].i]
  IN /\ adm[c].pc = "wait_time"
     /\ adm' = [adm EXCEPT ![c] =
          next_bucket([adm[c] EXCEPT !.max_wait = Max(@, wait_time(b, tokens[b]))])]
     /\ last' = Last("cmr_wait_time", b, c, TRUE)
     /\ UNCHANGED <<now, tokens, last_refill, rl_breaker, breaker, hist, qvars, pvars>>

\* Lines 140-142: the refund of the current bucket.
CMR_refund(c) ==
  LET b == BucketSeq[adm[c].i]
  IN /\ adm[c].pc = "refund"
     /\ tokens' = [tokens EXCEPT ![b] = refund_tokens(b, tokens[b])]
     /\ adm' = [adm EXCEPT ![c] =
          IF adm[c].i < Len(BucketSeq)
            THEN [adm[c] EXCEPT !.i = @ + 1]
            ELSE [adm[c] EXCEPT !.pc = "return"]]
     /\ last' = Last("cmr_refund", b, c, TRUE)
     /\ UNCHANGED <<now, last_refill, rl_breaker, breaker, hist, qvars, pvars>>

\* Line 144: return can_proceed, max_wait.
CMR_return(c) ==
  /\ adm[c].pc = "return"
  /\ last' = [Last("cmr_return", "none", c, adm[c].can_proceed)
                EXCEPT !.wait = adm[c].max_wait]
  /\ hist' = [hist EXCEPT !.granted = IF adm[c].can_proceed THEN @ + 1 ELSE @]
  /\ adm' = [adm EXCEPT ![c] = IdleCall]
  /\ UNCHANGED <<now, tokens, last_refill, rl_breaker, breaker, qvars, pvars>>

\* --------------------------------------------------------- RequestTracker
\* add_request: append (now, success), then drop the entries older than 24 h.
tracker_add(reqs, t, success) ==
  SelectSeq(Append(reqs, [at |-> t, success |-> success]),
            LAMBDA r : r.at >= t - TrackerHours * SecondsPerHour)

\* get_success_rate(60), as the pair (successes, requests) of the last hour;
\* the rate is 1.0 when there are none.
recent_requests(reqs, t) ==
  SelectSeq(reqs, LAMBDA r : r.at >= t - SuccessWindowMinutes * SecondsPerMinute)

recent_successes(reqs, t) ==
  Len(SelectSeq(recent_requests(reqs, t), LAMBDA r : r.success))

\* ------------------------------------------------------ SmartRequestQueue
\* Fractions n/d in lowest terms.
Frac(n, d) == [num |-> n \div GCD(n, d), den |-> d \div GCD(n, d)]

\* stats.get('success_rate_hour', 1.0), lines 328-329: k successes among the
\* n requests of the last hour (get_success_rate returns 1.0 when n = 0).
success_rate_hour(reqs, t) ==
  [k |-> recent_successes(reqs, t), n |-> Len(recent_requests(reqs, t))]

\* Lines 332-337: the rate is below 0.8 or above 0.95, so that adaptive_delay is
\* read and assigned.
rate_adjusts(rate) ==
  \/ rate.n = 0
  \/ 5 * rate.k < 4 * rate.n
  \/ 20 * rate.k > 19 * rate.n

\* Lines 332-337: the delay assigned from the delay d read, x1.2 capped at 10.0
\* below a success rate of 0.8, x0.9 floored at 1.0 above 0.95, else d.
adjusted_delay(d, rate) ==
  LET up == Frac(d.num * 6, d.den * 5)
      down == Frac(d.num * 9, d.den * 10)
  IN IF rate.n > 0 /\ 5 * rate.k < 4 * rate.n
       THEN IF up.num > 10 * up.den THEN Frac(10, 1) ELSE up
     ELSE IF rate.n = 0 \/ 20 * rate.k > 19 * rate.n
       THEN IF down.num < down.den THEN Frac(1, 1) ELSE down
     ELSE d

\* _update_adaptive_delay, lines 326-342, run without another thread in
\* between.
update_adaptive_delay(d, reqs, t) == adjusted_delay(d, success_rate_hour(reqs, t))

\* 2 ** k
RECURSIVE Pow2(_)
Pow2(k) == IF k = 0 THEN 1 ELSE 2 * Pow2(k - 1)

\* Mutant: the backoff shrinks from one retry to the next.
retry_delay_shrinking(retry_count) ==
  Min(RetryCap, RetryBase * Pow2(max_retries + 1 - retry_count))

\* _handle_failed_request, line 285: the backoff, from the retry_count already
\* incremented.
retry_delay(retry_count) == Min(RetryCap, RetryBase * Pow2(retry_count))

\* A QueuedRequest: priority, retry_count and scheduled_at; and, as history,
\* the callback invocations made for it that have returned (execs), the
\* retry delay computed last, in seconds (delay, 0 before the first), the
\* deliveries of its terminal failure to the caller (surfaced), the times it
\* was requeued after a second denial (requeues) and the times clear_queue
\* discarded it (cleared).
NoJob ==
  [priority |-> NORMAL, retry_count |-> 0, scheduled_at |-> 0, execs |-> 0, delay |-> 0,
   surfaced |-> 0, requeues |-> 0, cleared |-> 0]

\* A thread: where it is in its loop, the job it holds, the deadline of its
\* sleep, the wait reported by the limiter, the success rate and the delay it
\* read in _update_adaptive_delay; and, as history of the current dispatch,
\* the admissions granted to it (grants) and the callback invocations it
\* made (calls).
Thread(kind) ==
  [kind |-> kind, pc |-> "loop", job |-> 0, wake |-> 0, wait |-> 0,
   rate |-> [k |-> 0, n |-> 0], delay |-> [num |-> 0, den |-> 1],
   grants |-> 0, calls |-> 0]

Put(bag, x) == bag (+) SetToBag({x})
Take(bag, x) == bag (-) SetToBag({x})
RECURSIVE PutCopies(_, _, _)
PutCopies(bag, x, k) == IF k = 0 THEN bag ELSE PutCopies(Put(bag, x), x, k - 1)
Move(bag, x, y) == Put(Take(bag, x), y)

Workers == {w \in BagToSet(threads) : w.kind = "worker"}
RetryProcessors == {r \in BagToSet(threads) : r.kind = "retry"}

\* Mutant: the entries are ordered by scheduled time alone.
EntryLess_by_time(e, f) ==
  /\ e.job # 0
  /\ f.job # 0
  /\ jobs[e.job].scheduled_at < jobs[f.job].scheduled_at

\* The order of the PriorityQueue's entries (priority value, request): tuple
\* comparison, the requests compared by QueuedRequest.__lt__.  A sentinel
\* (0, None) is ordered by its priority value alone.
EntryLess(e, f) ==
  \/ e.prio < f.prio
  \/ /\ e.prio = f.prio
     /\ e.job # 0
     /\ f.job # 0
     /\ IF jobs[e.job].priority # jobs[f.job].priority
          THEN jobs[e.job].priority < jobs[f.job].priority
          ELSE jobs[e.job].scheduled_at < jobs[f.job].scheduled_at

\* The entries request_queue.get() may return.
MinEntries ==
  {e \in BagToSet(request_queue) : \A f \in BagToSet(request_queue) : ~EntryLess(f, e)}

Entry(j) == [prio |-> jobs[j].priority, job |-> j]

\* The number of jobs created so far.
NumJobs == Cardinality({j \in DOMAIN jobs : jobs[j] # NoJob})

\* start(), lines 105-128.
start(max_starts) ==
  /\ hist.starts < max_starts
  /\ running' = TRUE
  /\ threads' = Put(PutCopies(threads, Thread("worker"), max_concurrent), Thread("retry"))
  /\ hist' = [hist EXCEPT !.starts = @ + 1]
  /\ UNCHANGED <<now, last, pvars, tokens, last_refill, rl_breaker, breaker, adm, requests,
                 request_queue, retry_queue, jobs, stats, adaptive_delay>>

\* stop(), lines 130-142: the joins time out after 5 s each and change nothing.
stop ==
  /\ hist.stops < MaxStops
  /\ running' = FALSE
  /\ request_queue' =
       PutCopies(request_queue, [prio |-> SentinelPriority, job |-> 0], max_concurrent)
  /\ hist' = [hist EXCEPT !.stops = @ + 1]
  /\ UNCHANGED <<now, last, pvars, tokens, last_refill, rl_breaker, breaker, adm, requests,
                 threads, retry_queue, jobs, stats, adaptive_delay>>

\* add_request(sku, zip_code, callback, priority, delay), lines 144-164.
add_request(priority, delay) ==
  LET j == NumJobs + 1
  IN /\ NumJobs < MaxJobs
     /\ jobs' = [jobs EXCEPT ![j] = [priority |-> priority, retry_count |-> 0,
                                     scheduled_at |-> Seconds(now + delay),
                                     execs |-> 0, delay |-> 0, surfaced |-> 0,
                                     requeues |-> 0, cleared |-> 0]]
     /\ request_queue' = Put(request_queue, [prio |-> priority, job |-> j])
     /\ UNCHANGED <<now, last, pvars, tokens, last_refill, rl_breaker, breaker, hist, adm, requests,
                    running, threads, retry_queue, stats, adaptive_delay>>

\* The history after a record_request(success).
recorded(h, success) ==
  [h EXCEPT
     !.rl_run = IF success THEN 0 ELSE FailureRun(@, rl_breaker),
     !.rl_half = HalfOpenSuccesses(@, rl_breaker, rl_breaker', success),
     !.rl_alt = Alternation(@, rl_breaker', ~success)]

\* record_request(success), lines 146-153.
record_request_effect(success) ==
  /\ requests' = tracker_add(requests, now, success)
  /\ rl_breaker' = IF success THEN rl_record_success_state(rl_breaker)
                              ELSE rl_record_failure_state(rl_breaker, now)

\* ---------------------------------------------- _worker_loop, lines 186-214
\* `while self.running`: a worker that finds the queue stopped ends.
W_loop(w) ==
  /\ w.pc = "loop"
  /\ threads' = IF running THEN Move(threads, w, [w EXCEPT !.pc = "get"])
                           ELSE Take(threads, w)
  /\ UNCHANGED <<now, last, pvars, tokens, last_refill, rl_breaker, breaker, hist, adm, requests,
                 running, request_queue, retry_queue, jobs, stats, adaptive_delay>>

\* The thread after request_queue.get() returned the entry of job j (lines
\* 199-209): a job due later is slept on for at most 1 s, then processed.
got_entry(w, j, t) ==
  IF jobs[j].scheduled_at > Seconds(t)
    THEN [w EXCEPT !.pc = "sleep_sched", !.job = j,
                   !.wake = Seconds(t) + Min(jobs[j].scheduled_at - Seconds(t),
                                             Seconds(MaxSchedSleep))]
    ELSE [w EXCEPT !.pc = "admit1", !.job = j]

\* request_queue.get(timeout=1.0) returns an entry; the sentinel (None) ends
\* the thread.
W_get(w) ==
  /\ w.pc = "get"
  /\ \E e \in MinEntries :
       /\ request_queue' = Take(request_queue, e)
       /\ threads' = IF e.job = 0 THEN Take(threads, w)
                                  ELSE Move(threads, w, got_entry(w, e.job, now))
  /\ UNCHANGED <<now, last, pvars, tokens, last_refill, rl_breaker, breaker, hist, adm, requests,
                 running, retry_queue, jobs, stats, adaptive_delay>>

\* request_queue.get(timeout=1.0) raises Empty: continue.
W_empty(w) ==
  /\ w.pc = "get"
  /\ request_queue = EmptyBag
  /\ threads' = Move(threads, w, [w EXCEPT !.pc = "loop"])
  /\ UNCHANGED <<now, last, pvars, tokens, last_refill, rl_breaker, breaker, hist, adm, requests,
                 running, request_queue, retry_queue, jobs, stats, adaptive_delay>>

\* time.sleep(min(wait_time, 1.0)) is over (lines 204-206).
W_sleep_sched(w) ==
  /\ w.pc = "sleep_sched"
  /\ Seconds(now) >= w.wake
  /\ threads' = Move(threads, w, [w EXCEPT !.pc = "admit1"])
  /\ UNCHANGED <<now, last, pvars, tokens, last_refill, rl_breaker, breaker, hist, adm, requests,
                 running, request_queue, retry_queue, jobs, stats, adaptive_delay>>

\* ------------------------------------------ _process_request, lines 216-276
\* A _process_request that goes on to the callback whatever the first
\* can_make_request returned.
admit1_thread_unchecked(w, allowed, wait, t) ==
  [w EXCEPT !.pc = "jitter", !.grants = IF allowed THEN @ + 1 ELSE @]

\* The thread after the first can_make_request (lines 220-224).
admit1_thread(w, allowed, wait, t) ==
  IF allowed
    THEN [w EXCEPT !.pc = "jitter", !.grants = @ + 1]
    ELSE [w EXCEPT !.pc = "sleep_rate", !.wait = wait, !.wake = Seconds(t) + wait]

\* Lines 220-224 and 233-235: the first admission query.
W_admit1(w) ==
  /\ w.pc = "admit1"
  /\ cmr_effect
  /\ threads' = Move(threads, w, admit1_thread(w, cmr_allowed, cmr_wait, now))
  /\ stats' = [stats EXCEPT !.active_requests = IF cmr_allowed THEN @ + 1 ELSE @]
  /\ hist' = [hist EXCEPT
       !.rl_run = 0,
       !.rl_half = HalfOpenSuccesses(@, rl_breaker, rl_breaker', FALSE)]
  /\ UNCHANGED <<now, last, pvars, breaker, adm, requests, running, request_queue, retry_queue,
                 jobs, adaptive_delay>>

\* time.sleep(wait_time) is over (line 224).
W_sleep_rate(w) ==
  /\ w.pc = "sleep_rate"
  /\ Seconds(now) >= w.wake
  /\ threads' = Move(threads, w, [w EXCEPT !.pc = "admit2"])
  /\ UNCHANGED <<now, last, pvars, tokens, last_refill, rl_breaker, breaker, hist, adm, requests,
                 running, request_queue, retry_queue, jobs, stats, adaptive_delay>>

\* Mutant: after a second denial the worker requeues the job and goes on
\* with it.
admit2_thread_keeps(w, allowed) ==
  IF allowed
    THEN [w EXCEPT !.pc = "jitter", !.grants = @ + 1]
    ELSE [w EXCEPT !.pc = "admit1"]

\* The thread after the second can_make_request (lines 227-231).
admit2_thread(w, allowed) ==
  IF allowed
    THEN [w EXCEPT !.pc = "jitter", !.grants = @ + 1]
    ELSE Thread("worker")

\* Mutant: a requeue that counts as a retry.
requeued_as_retry(job, t, delay) ==
  [job EXCEPT !.scheduled_at = Seconds(t) + delay, !.retry_count = @ + 1,
              !.requeues = @ + 1]

\* _requeue_request(request, delay), lines 298-301: the job as it is put back
\* (delay in time units).
requeued(job, t, delay) ==
  [job EXCEPT !.scheduled_at = Seconds(t) + delay, !.requeues = @ + 1]

\* Lines 227-235: the second admission query; a second denial requeues the
\* job with the first wait as its delay (_requeue_request, lines 298-301).
W_admit2(w) ==
  /\ w.pc = "admit2"
  /\ cmr_effect
  /\ threads' = Move(threads, w, admit2_thread(w, cmr_allowed))
  /\ stats' = [stats EXCEPT !.active_requests = IF cmr_allowed THEN @ + 1 ELSE @]
  /\ jobs' = IF cmr_allowed THEN jobs
             ELSE [jobs EXCEPT ![w.job] = requeued(@, now, w.wait)]
  /\ request_queue' = IF cmr_allowed THEN request_queue
                      ELSE Put(request_queue, Entry(w.job))
  /\ hist' = [hist EXCEPT
       !.rl_run = 0,
       !.rl_half = HalfOpenSuccesses(@, rl_breaker, rl_breaker', FALSE)]
  /\ UNCHANGED <<now, last, pvars, breaker, adm, requests, running, retry_queue, adaptive_delay>>

\* The jitter sleep is over and the callback is invoked (lines 239-247).
W_jitter(w) ==
  /\ w.pc = "jitter"
  /\ threads' = Move(threads, w, [w EXCEPT !.pc = "callback", !.calls = @ + 1])
  /\ UNCHANGED <<now, last, pvars, tokens, last_refill, rl_breaker, breaker, hist, adm, requests,
                 running, request_queue, retry_queue, jobs, stats, adaptive_delay>>

\* Mutant: a job at max_retries is retried once more.
may_retry_once_more(job) == job.retry_count <= max_retries

\* _handle_failed_request, line 281: the job has retries left.
may_retry(job) == job.retry_count < max_retries

\* _handle_failed_request, lines 281-296: the job after a failure.  Without
\* retries left (lines 295-296) the failure is logged and nothing else is done:
\* nothing of the caller is called.
failed_job(job, t) ==
  IF may_retry(job)
    THEN [job EXCEPT !.retry_count = @ + 1,
                     !.scheduled_at = Seconds(t + retry_delay(job.retry_count + 1)),
                     !.delay = retry_delay(job.retry_count + 1)]
    ELSE job

\* What a callback invocation does: it returns a result that says success,
\* returns another result, or raises an Exception.
Outcomes == {"success", "failure", "raises"}

\* Lines 245-251, the inner try: `success` after the invocation.
callback_success(outcome) == outcome = "success"

\* Mutant: an exception of the callback skips the counting, as if only the
\* outer handler caught it.
processed_stats_skipped(st, outcome) ==
  IF outcome = "raises" THEN st
  ELSE [st EXCEPT !.total_processed = @ + 1,
                  !.failed_requests = IF outcome = "success" THEN @ ELSE @ + 1]

\* Lines 245-259: the counters after the invocation.
processed_stats(st, outcome) ==
  [st EXCEPT !.total_processed = @ + 1,
             !.failed_requests = IF callback_success(outcome) THEN @ ELSE @ + 1]

\* The callback invocation ends with the given outcome: it is recorded,
\* counted, and a failed job goes to the retry queue if it has retries left
\* (lines 245-264).  The outer handler (lines 266-269) is entered only by an
\* exception of the lines outside the inner try, which none of them raises.
W_execute(w, outcome) ==
  /\ w.pc = "callback"
  /\ record_request_effect(callback_success(outcome))
  /\ hist' = [recorded(hist, callback_success(outcome)) EXCEPT
       !.raised = IF outcome = "raises" THEN @ + 1 ELSE @,
       !.handled = IF callback_success(outcome) THEN @ ELSE @ + 1]
  /\ stats' = processed_stats(stats, outcome)
  /\ jobs' = [jobs EXCEPT ![w.job] =
                [(IF callback_success(outcome) THEN @ ELSE failed_job(@, now))
                   EXCEPT !.execs = @ + 1]]
  /\ retry_queue' = IF ~callback_success(outcome) /\ may_retry(jobs[w.job])
                      THEN Append(retry_queue, w.job)
                      ELSE retry_queue
  /\ threads' = Move(threads, w, [w EXCEPT !.pc = "finally"])
  /\ UNCHANGED <<now, last, pvars, tokens, last_refill, breaker, adm, running, request_queue,
                 adaptive_delay>>

\* The callback returns a result that says success, or one that does not.
W_callback(w, success) == W_execute(w, IF success THEN "success" ELSE "failure")

\* finally (lines 271-276) run without another thread in between: the slot is
\* released and the pacing adapted.
W_finally(w) ==
  /\ w.pc = "finally"
  /\ stats' = [stats EXCEPT !.active_requests = @ - 1]
  /\ adaptive_delay' = update_adaptive_delay(adaptive_delay, requests, now)
  /\ threads' = Move(threads, w, Thread("worker"))
  /\ UNCHANGED <<now, last, pvars, tokens, last_refill, rl_breaker, breaker, hist, adm, requests,
                 running, request_queue, retry_queue, jobs>>

\* The finally block statement by statement.  Lines 272-273: the slot is
\* released under stats_lock.
W_release(w) ==
  /\ w.pc = "finally"
  /\ stats' = [stats EXCEPT !.active_requests = @ - 1]
  /\ threads' = Move(threads, w, [w EXCEPT !.pc = "pace_rate"])
  /\ UNCHANGED <<now, last, pvars, tokens, last_refill, rl_breaker, breaker, hist, adm, requests,
                 running, request_queue, retry_queue, jobs, adaptive_delay>>

\* Lines 328-334: the success rate is read (under the tracker's lock) and
\* tested; in between 0.8 and 0.95 nothing is assigned.
W_pace_rate(w) ==
  /\ w.pc = "pace_rate"
  /\ threads' = Move(threads, w,
       IF rate_adjusts(success_rate_hour(requests, now))
         THEN [w EXCEPT !.pc = "pace_load", !.rate = success_rate_hour(requests, now)]
         ELSE Thread("worker"))
  /\ UNCHANGED <<now, last, pvars, tokens, last_refill, rl_breaker, breaker, hist, adm, requests,
                 running, request_queue, retry_queue, jobs, stats, adaptive_delay>>

\* Lines 334 and 337: self.adaptive_delay is read (no lock is held).
W_pace_load(w) ==
  /\ w.pc = "pace_load"
  /\ threads' = Move(threads, w, [w EXCEPT !.pc = "pace_store", !.delay = adaptive_delay])
  /\ UNCHANGED <<now, last, pvars, tokens, last_refill, rl_breaker, breaker, hist, adm, requests,
                 running, request_queue, retry_queue, jobs, stats, adaptive_delay>>

\* Lines 334 and 337: self.adaptive_delay is assigned.
W_pace_store(w) ==
  /\ w.pc = "pace_store"
  /\ adaptive_delay' = adjusted_delay(w.delay, w.rate)
  /\ threads' = Move(threads, w, Thread("worker"))
  /\ UNCHANGED <<now, last, pvars, tokens, last_refill, rl_breaker, breaker, hist, adm, requests,
                 running, request_queue, retry_queue, jobs, stats>>

\* ------------------------------------------- _retry_processor, lines 303-324
\* `while self.running`.
R_loop(r) ==
  /\ r.pc = "loop"
  /\ threads' = IF running THEN Move(threads, r, [r EXCEPT !.pc = "get"])
                           ELSE Take(threads, r)
  /\ UNCHANGED <<now, last, pvars, tokens, last_refill, rl_breaker, breaker, hist, adm, requests,
                 running, request_queue, retry_queue, jobs, stats, adaptive_delay>>

\* retry_queue.get(timeout=1.0) returns a job: sleep until it is due.
R_get(r) ==
  /\ r.pc = "get"
  /\ retry_queue # <<>>
  /\ retry_queue' = Tail(retry_queue)
  /\ threads' = Move(threads, r, [r EXCEPT !.pc = "sleep", !.job = Head(retry_queue),
                                           !.wake = jobs[Head(retry_queue)].scheduled_at])
  /\ UNCHANGED <<now, last, pvars, tokens, last_refill, rl_breaker, breaker, hist, adm, requests,
                 running, request_queue, jobs, stats, adaptive_delay>>

\* retry_queue.get(timeout=1.0) raises Empty: continue.
R_empty(r) ==
  /\ r.pc = "get"
  /\ retry_queue = <<>>
  /\ threads' = Move(threads, r, [r EXCEPT !.pc = "loop"])
  /\ UNCHANGED <<now, last, pvars, tokens, last_refill, rl_breaker, breaker, hist, adm, requests,
                 running, request_queue, retry_queue, jobs, stats, adaptive_delay>>

\* The backoff sleep is over: the job goes back to the queue (lines 312-317).
R_put(r) ==
  /\ r.pc = "sleep"
  /\ Seconds(now) >= r.wake
  /\ request_queue' = Put(request_queue, Entry(r.job))
  /\ threads' = Move(threads, r, Thread("retry"))
  /\ UNCHANGED <<now, last, pvars, tokens, last_refill, rl_breaker, breaker, hist, adm, requests,
                 running, retry_queue, jobs, stats, adaptive_delay>>

\* force_process_all(timeout), lines 365-377, returns True: a poll of its
\* loop found request_queue.qsize() = 0 and active_requests = 0.  (A poll that
\* finds otherwise sleeps 0.5 s or, past the timeout, returns False; neither
\* changes the state.)
force_process_all ==
  /\ request_queue = EmptyBag
  /\ stats.active_requests = 0
  /\ hist' = [hist EXCEPT !.drains = @ + 1]
  /\ UNCHANGED <<now, last, pvars, tokens, last_refill, rl_breaker, breaker, adm, requests,
                 running, threads, request_queue, retry_queue, jobs, stats, adaptive_delay>>

\* clear_queue(), lines 379-399: every entry of the two queues is taken out
\* and dropped (the sentinels too); the number of entries is logged.
clear_queue ==
  /\ request_queue' = EmptyBag
  /\ retry_queue' = <<>>
  /\ jobs' = [j \in DOMAIN jobs |->
               IF jobs[j] # NoJob /\ (CopiesIn(Entry(j), request_queue) > 0
                                       \/ \E i \in DOMAIN retry_queue : retry_queue[i] = j)
                 THEN [jobs[j] EXCEPT !.cleared = @ + 1]
                 ELSE jobs[j]]
  /\ UNCHANGED <<now, last, pvars, tokens, last_refill, rl_breaker, breaker, hist, adm, requests,
                 running, threads, stats, adaptive_delay>>

\* ----------------------------------------------------------- ProxyManager
\* The endpoints load_proxies read from the proxy file, in file order.
Proxies == 1..NumProxies

\* The instants at which the pool is used: the start and the first second
\* after a ban set at the start,
ProxyInstants == {1, 1 + ban_duration}

\* around RecoveryAge after the start,
RecoveryInstants == {1, 1 + RecoveryAge, 2 + RecoveryAge}

\* and around ban_duration and past CleanupAge after it.
CleanupInstants == {1, ban_duration, 1 + ban_duration, 2 + CleanupAge}

\* proxy_health[url] and proxy_performance[url] as load_proxies creates them
\* (lines 52-65): the two entries of an endpoint are created, updated and
\* removed together, and are one record here.
NewHealth ==
  [present |-> TRUE, consecutive_failures |-> 0, total_requests |-> 0,
   last_success |-> None, last_failure |-> None, banned_until |-> None,
   recent_results |-> <<>>]

\* No proxy_health entry: proxy_health.get(url, {}) is a fresh empty dict.
NoHealth == [NewHealth EXCEPT !.present = FALSE]

\* ProxyManager.lock (line 19): free, or held by the thread that asks for the
\* health summary; the other calls take and release it within their step.
Free == 0
Reporter == 1
IdleReport == [call |-> "none", pc |-> "idle", returns |-> 0]

\* _is_proxy_temporarily_banned, line 115: `banned_until and now < banned_until`.
is_proxy_temporarily_banned(h, t) ==
  h.banned_until # None /\ h.banned_until # 0 /\ t < h.banned_until

\* _is_proxy_temporarily_banned, lines 117-121: an expired ban is cleared.
ban_checked(h, t) ==
  IF ~is_proxy_temporarily_banned(h, t) /\ h.banned_until # None /\ h.banned_until # 0
    THEN [h EXCEPT !.banned_until = None, !.consecutive_failures = 0]
    ELSE h

\* Mutant: the temporary ban is not consulted.
healthy_ignoring_ban(failed, banned, health, t) ==
  {p \in Proxies : p \notin failed /\ p \notin banned}

\* _get_healthy_proxies: the endpoints it returns,
healthy(failed, banned, health, t) ==
  {p \in Proxies : /\ p \notin failed
                   /\ p \notin banned
                   /\ ~is_proxy_temporarily_banned(health[p], t)}

\* and the health map it leaves: the ban test runs only for endpoints in
\* neither set (lines 135-144).
health_checked(failed, banned, health, t) ==
  [p \in Proxies |-> IF p \in failed \/ p \in banned THEN health[p]
                     ELSE ban_checked(health[p], t)]

\* The k-th entry (from 0) of the healthy list, which is in file order.
RECURSIVE Nth(_, _)
Nth(S, k) ==
  LET m == CHOOSE x \in S : \A y \in S : x <= y
  IN IF k = 0 THEN m ELSE Nth(S \ {m}, k - 1)

\* record_proxy_result, lines 249-256: the outcome is appended and the last
\* performance_window outcomes are kept.
recent_appended(results, success) ==
  LET r == Append(results, success)
  IN IF Len(r) > performance_window
       THEN SubSeq(r, Len(r) - performance_window + 1, Len(r))
       ELSE r

\* record_proxy_result, lines 216-256: the endpoint's entries; without an
\* entry the update is made to a temporary dict and lost.
recorded_health(h, success, t) ==
  IF ~h.present THEN h
  ELSE IF success THEN [h EXCEPT !.total_requests = @ + 1, !.last_success = t,
                                 !.consecutive_failures = 0,
                                 !.recent_results = recent_appended(@, success)]
  ELSE [h EXCEPT !.total_requests = @ + 1,
                 !.last_failure = t,
                 !.consecutive_failures = @ + 1,
                 !.banned_until =
                    IF h.consecutive_failures + 1 >= consecutive_failures_threshold
                      THEN t + ban_duration ELSE @,
                 !.recent_results = recent_appended(@, success)]

\* sum(recent_results): the successes among the outcomes kept.
RECURSIVE successes(_)
successes(results) ==
  IF results = <<>> THEN 0
  ELSE (IF Head(results) THEN 1 ELSE 0) + successes(Tail(results))

\* get_random_proxy, lines 169-176: max(1, int(success_rate * 10)), and 5 for
\* an endpoint with no recorded outcome.
selection_weight(h) ==
  IF h.present /\ h.recent_results # <<>>
    THEN Max(1, (10 * successes(h.recent_results)) \div Len(h.recent_results))
    ELSE DefaultWeight

\* get_random_proxy, lines 164-183: the list random.choice draws from, as the
\* bag of its entries: every healthy endpoint, selection_weight times when
\* there are two or more of them.
weighted_proxies(H, health) ==
  [p \in H |-> IF Cardinality(H) > 1 THEN selection_weight(health[p]) ELSE 1]

\* _attempt_proxy_recovery, line 277: at least 80% of the pool is failed.
recovery_due(failed) == Cardinality(failed) * 5 >= NumProxies * 4

\* Line 286: health.get('last_failure', 0) is None for an entry that never
\* failed, and `current_time - None` raises TypeError.
recovery_raises(failed, health) ==
  recovery_due(failed) /\ \E p \in failed : health[p].present /\ health[p].last_failure = None

\* Mutant: an endpoint that failed exactly RecoveryAge ago is a candidate.
recovery_candidates_inclusive(failed, health, t) ==
  {p \in failed : t - (IF health[p].present THEN health[p].last_failure ELSE 0) >= RecoveryAge}

\* Lines 280-290.
recovery_candidates(failed, health, t) ==
  {p \in failed : t - (IF health[p].present THEN health[p].last_failure ELSE 0) > RecoveryAge}

\* Mutant: up to half of the pool is recovered.
recovery_count_half(failed, health, t) ==
  Min(Cardinality(recovery_candidates(failed, health, t)), NumProxies \div 2)

\* Line 293.
recovery_count(failed, health, t) ==
  Min(Cardinality(recovery_candidates(failed, health, t)), NumProxies \div 4)

\* Line 295: the samples random.sample may return; none when the pass does
\* nothing.
recoverable(failed, health, t) ==
  IF ~recovery_due(failed) THEN {{}}
  ELSE {R \in SUBSET recovery_candidates(failed, health, t) :
          Cardinality(R) = recovery_count(failed, health, t)}

\* Lines 296-301.
recovered_health(health, R) ==
  [p \in Proxies |-> IF p \in R /\ health[p].present
                       THEN [health[p] EXCEPT !.consecutive_failures = 0, !.banned_until = None]
                       ELSE health[p]]

\* cleanup_old_performance_data, lines 435-447, from the i-th entry on: max()
\* of a None timestamp raises TypeError and ends the pass where it stands.
RECURSIVE cleaned_health(_, _, _)
cleaned_health(health, i, t) ==
  IF i > NumProxies THEN health
  ELSE IF ~health[i].present THEN cleaned_health(health, i + 1, t)
  ELSE IF health[i].last_success = None \/ health[i].last_failure = None THEN health
  ELSE IF t - Max(health[i].last_success, health[i].last_failure) > CleanupAge
    THEN cleaned_health([health EXCEPT ![i] = NoHealth], i + 1, t)
  ELSE cleaned_health(health, i + 1, t)

\* reset_failed_proxies, lines 475-477.
reset_health(health) ==
  [p \in Proxies |-> IF health[p].present
                       THEN [health[p] EXCEPT !.consecutive_failures = 0, !.banned_until = None]
                       ELSE health[p]]

\* History: the last ProxyManager call, its argument and result (a returned
\* endpoint, 0 for None), what a recovery pass in it saw and recovered, and
\* the recovered endpoints whose banned_until it cleared.
PLast(name, p, ok, result, cand, R, U) ==
  [name |-> name, proxy |-> p, ok |-> ok, result |-> result,
   candidates |-> cand, recovered |-> R, unbanned |-> U]

\* The endpoints of R that have a banned_until.
with_ban(health, R) == {p \in R : health[p].present /\ health[p].banned_until # None}

MaxRun == consecutive_failures_threshold + 1

\* History: the ProxyManager calls made (ops), and per endpoint the failed
\* record_proxy_result calls since its last successful one or the last
\* clearing of its failure count (run) and the time of the last failed one
\* (at, 0 when there is none); the endpoints mark_proxy_banned was called
\* for since the last reset_banned_proxies (hard).
\* The count of calls is kept up to MaxOpsCount.
POps(run) == [phist EXCEPT !.ops = Min(@ + 1, MaxOpsCount), !.run = run]

\* The runs after a health check, a recovery or a reset: an endpoint whose
\* count was cleared starts again.
runs_cleared(health2) ==
  [p \in Proxies |-> IF proxy_health[p].present /\ health2[p].present
                        /\ proxy_health[p].consecutive_failures > 0
                        /\ health2[p].consecutive_failures = 0
                       THEN 0 ELSE phist.run[p]]

nonproxy == <<tokens, last_refill, rl_breaker, breaker, last, hist, adm, qvars>>

\* record_proxy_result(proxy, success), lines 199-256.
record_proxy_result(p, success) ==
  /\ lock = Free
  /\ proxy_health' = [proxy_health EXCEPT ![p] = recorded_health(@, success, now)]
  /\ failed_proxies' = IF success THEN failed_proxies \ {p} ELSE failed_proxies
  /\ plast' = PLast("record_proxy_result", p, success, 0, {}, {}, {})
  /\ phist' = [POps([phist.run EXCEPT ![p] = IF success THEN 0 ELSE Min(@ + 1, MaxRun)])
               EXCEPT !.at[p] = IF success THEN @ ELSE now]
  /\ UNCHANGED <<now, banned_proxies, last_proxy_index, lock, pstat, nonproxy>>

\* mark_proxy_failed(proxy), lines 258-264.
mark_proxy_failed(p) ==
  /\ lock = Free
  /\ failed_proxies' = failed_proxies \cup {p}
  /\ proxy_health' = [proxy_health EXCEPT ![p] = recorded_health(@, FALSE, now)]
  /\ plast' = PLast("mark_proxy_failed", p, FALSE, 0, {}, {}, {})
  /\ phist' = [POps([phist.run EXCEPT ![p] = Min(@ + 1, MaxRun)]) EXCEPT !.at[p] = now]
  /\ UNCHANGED <<now, banned_proxies, last_proxy_index, lock, pstat, nonproxy>>

\* Mutant: the endpoint is put into the failed set only.
mark_proxy_banned_soft(p) ==
  /\ failed_proxies' = failed_proxies \cup {p}
  /\ plast' = PLast("mark_proxy_banned", p, TRUE, 0, {}, {}, {})
  /\ phist' = [POps(phist.run) EXCEPT !.hard = @ \cup {p}]
  /\ UNCHANGED <<now, banned_proxies, proxy_health, last_proxy_index, lock, pstat, nonproxy>>

\* mark_proxy_banned(proxy), lines 266-272.
mark_proxy_banned(p) ==
  /\ banned_proxies' = banned_proxies \cup {p}
  /\ failed_proxies' = failed_proxies \cup {p}
  /\ plast' = PLast("mark_proxy_banned", p, TRUE, 0, {}, {}, {})
  /\ phist' = [POps(phist.run) EXCEPT !.hard = @ \cup {p}]
  /\ UNCHANGED <<now, proxy_health, last_proxy_index, lock, pstat, nonproxy>>

\* _attempt_proxy_recovery(), lines 274-303; ok is FALSE when it raises.
attempt_proxy_recovery ==
  /\ lock = Free
  /\ IF recovery_raises(failed_proxies, proxy_health)
       THEN /\ UNCHANGED <<failed_proxies, proxy_health>>
            /\ plast' = PLast("attempt_proxy_recovery", 0, FALSE, 0, {}, {}, {})
            /\ phist' = POps(phist.run)
       ELSE \E R \in recoverable(failed_proxies, proxy_health, now) :
            /\ failed_proxies' = failed_proxies \ R
            /\ proxy_health' = recovered_health(proxy_health, R)
            /\ plast' = PLast("attempt_proxy_recovery", 0, TRUE, 0,
                              IF recovery_due(failed_proxies)
                                THEN recovery_candidates(failed_proxies, proxy_health, now)
                                ELSE {}, R, with_ban(proxy_health, R))
            /\ phist' = POps(runs_cleared(recovered_health(proxy_health, R)))
  /\ UNCHANGED <<now, banned_proxies, last_proxy_index, lock, pstat, nonproxy>>

\* get_random_proxy(), lines 150-183.  Every healthy endpoint has a weight of
\* at least 1, so random.choice may return any of them.
get_random_proxy ==
  LET h1 == health_checked(failed_proxies, banned_proxies, proxy_health, now)
      H1 == healthy(failed_proxies, banned_proxies, proxy_health, now)
  IN /\ lock = Free
     /\ IF H1 # {}
          THEN /\ proxy_health' = h1
               /\ UNCHANGED failed_proxies
               /\ \E p \in BagToSet(weighted_proxies(H1, h1)) :
                    plast' = PLast("get_random_proxy", 0, TRUE, p, {}, {}, {})
               /\ phist' = POps(runs_cleared(h1))
          ELSE IF recovery_raises(failed_proxies, h1)
            THEN /\ proxy_health' = h1
                 /\ UNCHANGED failed_proxies
                 /\ plast' = PLast("get_random_proxy", 0, FALSE, 0, {}, {}, {})
                 /\ phist' = POps(runs_cleared(h1))
            ELSE \E R \in recoverable(failed_proxies, h1, now) :
                 LET f2 == failed_proxies \ R
                     h2 == recovered_health(h1, R)
                     h3 == health_checked(f2, banned_proxies, h2, now)
                     H2 == healthy(f2, banned_proxies, h2, now)
                 IN /\ failed_proxies' = f2
                    /\ proxy_health' = h3
                    /\ \E p \in (IF H2 = {} THEN {0} ELSE BagToSet(weighted_proxies(H2, h3))) :
                         plast' = PLast("get_random_proxy", 0, TRUE, p,
                                        IF recovery_due(failed_proxies)
                                          THEN recovery_candidates(failed_proxies, h1, now)
                                          ELSE {}, R, with_ban(h1, R))
                    /\ phist' = POps(runs_cleared(h3))
     /\ UNCHANGED <<now, banned_proxies, last_proxy_index, lock, pstat, nonproxy>>

\* get_next_proxy(), lines 185-197.
get_next_proxy ==
  LET H == healthy(failed_proxies, banned_proxies, proxy_health, now)
      h1 == health_checked(failed_proxies, banned_proxies, proxy_health, now)
  IN /\ lock = Free
     /\ last_proxy_index < MaxIndex
     /\ proxy_health' = h1
     /\ last_proxy_index' = IF H = {} THEN last_proxy_index ELSE last_proxy_index + 1
     /\ plast' = PLast("get_next_proxy", 0, TRUE,
                       IF H = {} THEN 0 ELSE Nth(H, last_proxy_index % Cardinality(H)),
                       {}, {}, {})
     /\ phist' = POps(runs_cleared(h1))
     /\ UNCHANGED <<now, failed_proxies, banned_proxies, lock, pstat, nonproxy>>

\* force_new_proxy(), lines 452-467.
force_new_proxy ==
  LET H == healthy(failed_proxies, banned_proxies, proxy_health, now)
      h1 == health_checked(failed_proxies, banned_proxies, proxy_health, now)
  IN /\ lock = Free
     /\ proxy_health' = h1
     /\ \E p \in (IF H = {} THEN {0} ELSE H) :
          plast' = PLast("force_new_proxy", 0, TRUE, p, {}, {}, {})
     /\ phist' = POps(runs_cleared(h1))
     /\ UNCHANGED <<now, failed_proxies, banned_proxies, last_proxy_index, lock, pstat, nonproxy>>

\* reset_failed_proxies(), lines 469-480.
reset_failed_proxies ==
  /\ lock = Free
  /\ failed_proxies' = {}
  /\ proxy_health' = reset_health(proxy_health)
  /\ plast' = PLast("reset_failed_proxies", 0, TRUE, 0, {}, {}, {})
  /\ phist' = POps(runs_cleared(reset_health(proxy_health)))
  /\ UNCHANGED <<now, banned_proxies, last_proxy_index, lock, pstat, nonproxy>>

\* reset_banned_proxies(), lines 482-487.
reset_banned_proxies ==
  /\ lock = Free
  /\ banned_proxies' = {}
  /\ plast' = PLast("reset_banned_proxies", 0, TRUE, 0, {}, {}, {})
  /\ phist' = [POps(phist.run) EXCEPT !.hard = {}]
  /\ UNCHANGED <<now, failed_proxies, proxy_health, last_proxy_index, lock, pstat, nonproxy>>

\* cleanup_old_performance_data(), lines 430-450.
cleanup_old_performance_data ==
  /\ lock = Free
  /\ proxy_health' = cleaned_health(proxy_health, 1, now)
  /\ plast' = PLast("cleanup_old_performance_data", 0, TRUE, 0, {}, {}, {})
  /\ phist' = POps(phist.run)
  /\ UNCHANGED <<now, failed_proxies, banned_proxies, last_proxy_index, lock, pstat, nonproxy>>

\* get_proxy_stats(), line 354: `with self.lock`, taken by the calling thread.
get_proxy_stats ==
  /\ pstat.pc = "idle"
  /\ pstat.returns < MaxReports
  /\ lock = Free
  /\ lock' = Reporter
  /\ pstat' = [pstat EXCEPT !.call = "get_proxy_stats", !.pc = "acquire"]
  /\ UNCHANGED <<now, failed_proxies, banned_proxies, last_proxy_index, proxy_health,
                 plast, phist, nonproxy>>

\* export_proxy_health_report(), line 491: `with self.lock`.
export_proxy_health_report ==
  /\ pstat.pc = "idle"
  /\ pstat.returns < MaxReports
  /\ lock = Free
  /\ lock' = Reporter
  /\ pstat' = [pstat EXCEPT !.call = "export_proxy_health_report", !.pc = "acquire"]
  /\ UNCHANGED <<now, failed_proxies, banned_proxies, last_proxy_index, proxy_health,
                 plast, phist, nonproxy>>

\* The next statement of either call takes the lock again: line 358 calls
\* _get_healthy_proxies (`with self.lock`, line 127) and line 494 calls
\* get_proxy_stats (`with self.lock`, line 354).  A threading.Lock is not
\* reentrant: the thread waits until the lock is free, whoever holds it.  Once
\* it has the lock, the rest of the call runs (the expired bans are cleared,
\* lines 362-364), the lock is released and the report is returned.
nested_acquire ==
  /\ pstat.pc \in {"acquire", "blocked"}
  /\ IF lock = Free
       THEN /\ proxy_health' = [p \in Proxies |-> ban_checked(proxy_health[p], now)]
            /\ pstat' = [pstat EXCEPT !.pc = "idle", !.returns = @ + 1]
            /\ UNCHANGED lock
       ELSE /\ pstat' = [pstat EXCEPT !.pc = "blocked"]
            /\ UNCHANGED <<lock, proxy_health>>
  /\ UNCHANGED <<now, failed_proxies, banned_proxies, last_proxy_index, plast, phist, nonproxy>>

\* Time passes between two uses of the pool.
Advance(instants) ==
  /\ \E t \in instants : t > now /\ now' = t
  /\ UNCHANGED <<pvars, nonproxy>>

\* ------------------------------------------------------------------ Init
\* The state after construction.  The clock starts at a positive epoch time.
Init ==
  /\ now = 1
  /\ tokens = [b \in Buckets |-> capacity(b) * Unit]
  /\ last_refill = [b \in Buckets |-> 1]
  /\ rl_breaker = [state |-> "CLOSED", failure_count |-> 0, last_failure_time |-> None]
  /\ breaker = cb_reset_state
  /\ last = [name |-> "init", bucket |-> "none", n |-> 0, ok |-> TRUE, at |-> 1, wait |-> 0,
             pre_tokens |-> [b \in Buckets |-> capacity(b) * Unit],
             pre_refill |-> [b \in Buckets |-> 1],
             pre_rl |-> [state |-> "CLOSED", failure_count |-> 0, last_failure_time |-> None],
             pre_cb |-> cb_reset_state]
  /\ hist = [rl_run |-> 0, cb_run |-> 0, rl_half |-> 0, cb_half |-> 0, rl_alt |-> 0,
             cb_alt |-> 0, granted |-> 0, calls |-> 0, starts |-> 0, stops |-> 0,
             drains |-> 0, raised |-> 0, handled |-> 0]
  /\ adm = [c \in Callers |-> IdleCall]
  /\ requests = <<>>
  /\ running = FALSE
  /\ threads = EmptyBag
  /\ request_queue = EmptyBag
  /\ retry_queue = <<>>
  /\ jobs = [j \in 1..MaxJobs |-> NoJob]
  /\ stats = [active_requests |-> 0, total_processed |-> 0, failed_requests |-> 0]
  /\ adaptive_delay = Frac(2, 1)
  /\ failed_proxies = {}
  /\ banned_proxies = {}
  /\ last_proxy_index = 0
  /\ proxy_health = [p \in Proxies |-> NewHealth]
  /\ plast = [name |-> "init", proxy |-> 0, ok |-> TRUE, result |-> 0,
              candidates |-> {}, recovered |-> {}, unbanned |-> {}]
  /\ phist = [ops |-> 0, run |-> [p \in Proxies |-> 0], at |-> [p \in Proxies |-> 0],
              hard |-> {}]
  /\ lock = Free
  /\ pstat = IdleReport

\* ------------------------------------------------- a single TokenBucket
NextBucket ==
  \/ Tick(ShortTick, MaxNowBucket)
  \/ \E b \in Buckets, n \in 1..MaxConsume : consume(b, n)

SpecBucket == Init /\ [][NextBucket]_vars

\* ------------------------------------- the limiter, one caller at a time
NextLimiter ==
  \/ Tick(ShortTick, MaxNowLimiter)
  \/ can_make_request
  \/ RL_record_failure
  \/ RL_record_success

SpecLimiter == Init /\ [][NextLimiter]_vars

\* --------------------------------- the limiter under concurrent callers
NextAdmission ==
  \/ Tick(ShortTick, MaxNowAdmission)
  \/ \E c \in Callers : CMR_begin(c)
  \/ \E c \in Callers : CMR_consume(c)
  \/ \E c \in Callers : CMR_wait_time(c)
  \/ \E c \in Callers : CMR_refund(c)
  \/ \E c \in Callers : CMR_return(c)

SpecAdmission == Init /\ [][NextAdmission]_vars

\* ------------------------------------------ the queue and its threads
NextQueue ==
  \/ Tick(LongTick, MaxNowQueue)
  \/ start(MaxStarts)
  \/ stop
  \/ \E d \in {0, RetryBase} : add_request(NORMAL, d)
  \/ \E w \in Workers : W_loop(w)
  \/ \E w \in Workers : W_get(w)
  \/ \E w \in Workers : W_empty(w)
  \/ \E w \in Workers : W_sleep_sched(w)
  \/ \E w \in Workers : W_admit1(w)
  \/ \E w \in Workers : W_sleep_rate(w)
  \/ \E w \in Workers : W_admit2(w)
  \/ \E w \in Workers : W_jitter(w)
  \/ \E w \in Workers, success \in BOOLEAN :
       (success \/ stats.failed_requests < MaxFailed) /\ W_callback(w, success)
  \/ \E w \in Workers : W_finally(w)
  \/ \E r \in RetryProcessors : R_loop(r)
  \/ \E r \in RetryProcessors : R_get(r)
  \/ \E r \in RetryProcessors : R_empty(r)
  \/ \E r \in RetryProcessors : R_put(r)

SpecQueue == Init /\ [][NextQueue]_vars

\* ------------------------- the queue started more than once, no failures
NextRestart ==
  \/ Tick(LongTick, MaxNowRestart)
  \/ start(MaxRestarts)
  \/ stop
  \/ \E d \in {0, RetryBase} : add_request(NORMAL, d)
  \/ \E w \in Workers : W_loop(w)
  \/ \E w \in Workers : W_get(w)
  \/ \E w \in Workers : W_empty(w)
  \/ \E w \in Workers : W_sleep_sched(w)
  \/ \E w \in Workers : W_admit1(w)
  \/ \E w \in Workers : W_sleep_rate(w)
  \/ \E w \in Workers : W_admit2(w)
  \/ \E w \in Workers : W_jitter(w)
  \/ \E w \in Workers : W_callback(w, TRUE)
  \/ \E w \in Workers : W_finally(w)
  \/ \E r \in RetryProcessors : R_loop(r)
  \/ \E r \in RetryProcessors : R_empty(r)

SpecRestart == Init /\ [][NextRestart]_vars

\* ------------------------------- the queue with jobs scheduled for later
NextSchedule ==
  \/ Tick(ShortTick, MaxNowSchedule)
  \/ start(MaxStarts)
  \/ \E d \in {0, RetryBase} : add_request(NORMAL, d)
  \/ \E w \in Workers : W_loop(w)
  \/ \E w \in Workers : W_get(w)
  \/ \E w \in Workers : W_empty(w)
  \/ \E w \in Workers : W_sleep_sched(w)
  \/ \E w \in Workers : W_admit1(w)
  \/ \E w \in Workers : W_sleep_rate(w)
  \/ \E w \in Workers : W_admit2(w)
  \/ \E w \in Workers : W_jitter(w)
  \/ \E w \in Workers : W_callback(w, TRUE)
  \/ \E w \in Workers : W_finally(w)
  \/ \E r \in RetryProcessors : R_loop(r)
  \/ \E r \in RetryProcessors : R_empty(r)

SpecSchedule == Init /\ [][NextSchedule]_vars

\* ------------------------------------------------ the queue being drained
NextDrain ==
  \/ Tick(LongTick, MaxNowDrain)
  \/ start(MaxStarts)
  \/ \E d \in {0, RetryBase} : NumJobs < MaxDrainJobs /\ add_request(NORMAL, d)
  \/ \E w \in Workers : W_loop(w)
  \/ \E w \in Workers : W_get(w)
  \/ \E w \in Workers : W_empty(w)
  \/ \E w \in Workers : W_sleep_sched(w)
  \/ \E w \in Workers : W_admit1(w)
  \/ \E w \in Workers : W_sleep_rate(w)
  \/ \E w \in Workers : W_admit2(w)
  \/ \E w \in Workers : W_jitter(w)
  \/ \E w \in Workers, outcome \in Outcomes :
       (callback_success(outcome) \/ stats.failed_requests < MaxDrainFailed)
         /\ W_execute(w, outcome)
  \/ \E w \in Workers : W_finally(w)
  \/ \E r \in RetryProcessors : R_loop(r)
  \/ \E r \in RetryProcessors : R_get(r)
  \/ \E r \in RetryProcessors : R_empty(r)
  \/ \E r \in RetryProcessors : R_put(r)
  \/ hist.drains < MaxDrains /\ force_process_all

SpecDrain == Init /\ [][NextDrain]_vars

\* ------------------------------------------ the queue started and stopped
\* Jobs due at once, few enough for the limiter to admit each at the first
\* query, and callbacks that succeed: no thread waits for the clock.
NextShutdown ==
  \/ start(MaxStarts)
  \/ stop
  \/ clear_queue
  \/ NumJobs < MaxShutdownJobs /\ add_request(NORMAL, 0)
  \/ \E w \in Workers : W_loop(w)
  \/ \E w \in Workers : W_get(w)
  \/ \E w \in Workers : W_empty(w)
  \/ \E w \in Workers : W_admit1(w)
  \/ \E w \in Workers : W_jitter(w)
  \/ \E w \in Workers : W_callback(w, TRUE)
  \/ \E w \in Workers : W_finally(w)
  \/ \E r \in RetryProcessors : R_loop(r)
  \/ \E r \in RetryProcessors : R_empty(r)

\* Every thread that can take a step is scheduled in the end; start, stop,
\* clear_queue and add_request are the caller's and are owed to nobody.
FairThreads ==
  /\ WF_vars(\E w \in Workers : W_loop(w))
  /\ WF_vars(\E w \in Workers : W_get(w))
  /\ WF_vars(\E w \in Workers : W_empty(w))
  /\ WF_vars(\E w \in Workers : W_admit1(w))
  /\ WF_vars(\E w \in Workers : W_jitter(w))
  /\ WF_vars(\E w \in Workers : W_callback(w, TRUE))
  /\ WF_vars(\E w \in Workers : W_finally(w))
  /\ WF_vars(\E r \in RetryProcessors : R_loop(r))
  /\ WF_vars(\E r \in RetryProcessors : R_empty(r))

SpecShutdown == Init /\ [][NextShutdown]_vars /\ FairThreads

\* ------------------------- the workers' finally blocks, statement by statement
\* Jobs due at once, admitted at the first query, with callbacks that succeed.
NextPacing ==
  \/ start(MaxStarts)
  \/ NumJobs < MaxPacingJobs /\ add_request(NORMAL, 0)
  \/ \E w \in Workers : W_loop(w)
  \/ \E w \in Workers : W_get(w)
  \/ \E w \in Workers : W_empty(w)
  \/ \E w \in Workers : W_admit1(w)
  \/ \E w \in Workers : W_jitter(w)
  \/ \E w \in Workers : W_callback(w, TRUE)
  \/ \E w \in Workers : W_release(w)
  \/ \E w \in Workers : W_pace_rate(w)
  \/ \E w \in Workers : W_pace_load(w)
  \/ \E w \in Workers : W_pace_store(w)
  \/ \E r \in RetryProcessors : R_loop(r)
  \/ \E r \in RetryProcessors : R_empty(r)

SpecPacing == Init /\ [][NextPacing]_vars

\* ------------------------------------ the queue with failing callbacks
\* The wait a denied worker sleeps (a token of the hour bucket, or the open
\* breaker) does not end before MaxNowRetry, so no second admission query is
\* made.
NextRetry ==
  \/ Tick(LongTick, MaxNowRetry)
  \/ start(MaxStarts)
  \/ \E d \in {0, RetryBase} : NumJobs < MaxRetryJobs /\ add_request(NORMAL, d)
  \/ \E w \in Workers : W_loop(w)
  \/ \E w \in Workers : W_get(w)
  \/ \E w \in Workers : W_empty(w)
  \/ \E w \in Workers : W_sleep_sched(w)
  \/ \E w \in Workers : W_admit1(w)
  \/ \E w \in Workers : W_jitter(w)
  \/ \E w \in Workers : stats.failed_requests < MaxRetryFailed /\ W_callback(w, FALSE)
  \/ \E w \in Workers : W_finally(w)
  \/ \E r \in RetryProcessors : R_loop(r)
  \/ \E r \in RetryProcessors : R_get(r)
  \/ \E r \in RetryProcessors : R_empty(r)
  \/ \E r \in RetryProcessors : R_put(r)

SpecRetry == Init /\ [][NextRetry]_vars

\* ------------------------- the queue with jobs of two priority classes
NextPriority ==
  \/ Tick(LongTick, MaxNowQueue)
  \/ start(MaxStarts)
  \/ \E p \in {CRITICAL, LOW}, d \in {0, RetryBase} : add_request(p, d)
  \/ \E w \in Workers : W_loop(w)
  \/ \E w \in Workers : W_get(w)
  \/ \E w \in Workers : W_empty(w)
  \/ \E w \in Workers : W_sleep_sched(w)
  \/ \E w \in Workers : W_admit1(w)
  \/ \E w \in Workers : W_sleep_rate(w)
  \/ \E w \in Workers : W_admit2(w)
  \/ \E w \in Workers : W_jitter(w)
  \/ \E w \in Workers : W_callback(w, TRUE)
  \/ \E w \in Workers : W_finally(w)
  \/ \E r \in RetryProcessors : R_loop(r)
  \/ \E r \in RetryProcessors : R_empty(r)

SpecPriority == Init /\ [][NextPriority]_vars

\* ------------------------------------------------------ the proxy pool
NextProxy ==
  \/ Advance(ProxyInstants)
  \/ phist.ops < MaxProxyOps /\ \E p \in Proxies, success \in BOOLEAN : record_proxy_result(p, success)
  \/ phist.ops < MaxProxyOps /\ \E p \in Proxies : mark_proxy_failed(p)
  \/ phist.ops < MaxProxyOps /\ \E p \in Proxies : mark_proxy_banned(p)
  \/ phist.ops < MaxProxyOps /\ attempt_proxy_recovery
  \/ phist.ops < MaxProxyOps /\ get_random_proxy
  \/ phist.ops < MaxProxyOps /\ get_next_proxy
  \/ phist.ops < MaxProxyOps /\ force_new_proxy
  \/ phist.ops < MaxProxyOps /\ reset_failed_proxies
  \/ phist.ops < MaxProxyOps /\ reset_banned_proxies

SpecProxy == Init /\ [][NextProxy]_vars

\* ------------------------------ the proxy pool around a recovery pass
NextRecovery ==
  \/ Advance(RecoveryInstants)
  \/ phist.ops < MaxRecoveryOps /\ \E p \in Proxies : mark_proxy_failed(p)
  \/ phist.ops < MaxRecoveryOps /\ \E p \in Proxies : mark_proxy_banned(p)
  \/ phist.ops < MaxRecoveryOps /\ attempt_proxy_recovery
  \/ phist.ops < MaxRecoveryOps /\ get_random_proxy

SpecRecovery == Init /\ [][NextRecovery]_vars

\* ------------------- the proxy pool with its health data cleaned up
NextCleanup ==
  \/ Advance(CleanupInstants)
  \/ phist.ops < MaxProxyOps /\ \E p \in Proxies, success \in BOOLEAN : record_proxy_result(p, success)
  \/ phist.ops < MaxProxyOps /\ get_next_proxy
  \/ phist.ops < MaxProxyOps /\ cleanup_old_performance_data

SpecCleanup == Init /\ [][NextCleanup]_vars

\* -------------------- the proxy pool with callers that keep on selecting
\* Endpoints fail at most MaxSoftFailures times each and nobody resets; the
\* callers go on calling get_random_proxy and time goes on.
NextSoft ==
  \/ Advance(RecoveryInstants)
  \/ \E p \in Proxies : proxy_health[p].total_requests < MaxSoftFailures /\ mark_proxy_failed(p)
  \/ get_random_proxy

FairSelection ==
  /\ WF_vars(Advance(RecoveryInstants))
  /\ WF_vars(get_random_proxy)

SpecSoft == Init /\ [][NextSoft]_vars /\ FairSelection

\* ------------------- the proxy pool with a thread that asks for the summary
NextStats ==
  \/ phist.ops < MaxStatsOps /\ \E p \in Proxies, success \in BOOLEAN : record_proxy_result(p, success)
  \/ phist.ops < MaxStatsOps /\ get_random_proxy
  \/ get_proxy_stats
  \/ export_proxy_health_report
  \/ nested_acquire

\* The thread that made the call is scheduled until the call returns.
FairReporter == WF_vars(nested_acquire)

SpecStats == Init /\ [][NextStats]_vars /\ FairReporter

\* ------------------------------------------------ the circuit breakers
NextBreaker ==
  \/ Tick(LongTick, MaxNowBreaker)
  \/ RL_record_failure
  \/ RL_record_success
  \/ RL_is_open
  \/ CB_can_execute
  \/ CB_record_success
  \/ CB_record_failure
  \/ CB_reset

SpecBreaker == Init /\ [][NextBreaker]_vars

\* ================================================================ claims

\* C1 (as claimed): the number of admissions granted never exceeds the minute
\* bucket's initial tokens plus the tokens refilled in the time elapsed.
C1_RateCap ==
  hist.granted * Unit <= capacity("minute") * Unit + (now - 1) * refill_rate("minute")

\* C2 (as claimed): a denied can_make_request leaves in every bucket the count
\* it had before the call, net of the time-based refill.
C2_AdmissionAtomicity ==
  (last.name = "can_make_request" /\ ~last.ok) =>
    \A b \in Buckets :
      tokens[b] = Min(capacity(b) * Unit,
                      last.pre_tokens[b] + (last.at - last.pre_refill[b]) * refill_rate(b))

\* C3: a worker invokes a job's callback only after a can_make_request of the
\* same dispatch returned allowed, and once per dispatch.
C3_NoBypass ==
  \A w \in Workers :
    /\ w.calls <= w.grants
    /\ w.grants <= 1
    /\ w.pc \in {"callback", "finally"} => (w.calls = 1 /\ w.grants = 1)
    /\ w.pc \in {"sleep_sched", "admit1", "sleep_rate", "admit2"} => w.calls = 0

\* A job is in its callback after a first denial and a granted second query.
C3_Witness ==
  \E w \in Workers : w.pc = "callback" /\ w.wait > 0 /\ w.grants = 1

\* C4 (as claimed): the number of in-flight jobs is never negative and never
\* above max_concurrent.
C4_ConcurrencyBound ==
  stats.active_requests >= 0 /\ stats.active_requests <= max_concurrent

\* C5 (as claimed): in every reachable state of the limiter each bucket holds
\* at least 0 tokens and at most its capacity.
C5_TokenConservation ==
  \A b \in Buckets : tokens[b] >= 0 /\ tokens[b] <= capacity(b) * Unit

\* C6: TokenBucket.consume(n) first refills to min(capacity, tokens +
\* elapsed*rate); it returns true exactly when the refilled count is >= n and
\* then leaves refilled - n; when it returns false it leaves the refilled count.
C6_ConsumeContract ==
  last.name = "consume" =>
    LET b == last.bucket
        r == Min(capacity(b) * Unit,
                 last.pre_tokens[b] + (last.at - last.pre_refill[b]) * refill_rate(b))
    IN /\ last.ok <=> r >= last.n * Unit
       /\ last.ok => tokens[b] = r - last.n * Unit
       /\ ~last.ok => tokens[b] = r
       /\ \A o \in Buckets \ {b} : tokens[o] = last.pre_tokens[o]

\* A failed consume that applied a refill, and nothing else.
C6_Witness ==
  /\ last.name = "consume"
  /\ ~last.ok
  /\ tokens[last.bucket] > last.pre_tokens[last.bucket]
  /\ tokens[last.bucket] < capacity(last.bucket) * Unit

\* C7: from Closed with failure_count 0, failure_threshold consecutive
\* record_failure calls open the breaker and record the time of the failure;
\* fewer leave it Closed.  Both breaker classes.
C7_Opening ==
  /\ hist.rl_run \in 1..(failure_threshold - 1) => rl_breaker.state = "CLOSED"
  /\ hist.rl_run = failure_threshold => rl_breaker.state = "OPEN"
  /\ (hist.rl_run >= 1 /\ last.name = "rl_record_failure") =>
        rl_breaker.last_failure_time = last.at
  /\ hist.cb_run \in 1..(failure_threshold - 1) => breaker.state = "CLOSED"
  /\ hist.cb_run = failure_threshold => breaker.state = "OPEN"
  /\ (hist.cb_run >= 1 /\ last.name = "cb_record_failure") =>
        breaker.last_failure_time = last.at

\* Both breakers have just been opened by their failure_threshold-th failure.
C7_Witness ==
  /\ hist.rl_run = failure_threshold
  /\ hist.cb_run = failure_threshold
  /\ rl_breaker.state = "OPEN"
  /\ breaker.state = "OPEN"
  /\ last.name = "rl_record_failure"
  /\ last.pre_rl.state = "CLOSED"

\* C8: while Open and within the cooldown every admission query denies and
\* leaves the breaker Open; Open -> HalfOpen happens only in an admission
\* query made once the cooldown has elapsed, and that query admits; the
\* passage of time alone changes nothing.  Both breaker classes.
C8_Cooldown ==
  /\ (/\ last.name = "rl_is_open"
      /\ last.pre_rl.state = "OPEN"
      /\ last.at - last.pre_rl.last_failure_time < recovery_timeout)
       => (last.ok /\ rl_breaker.state = "OPEN")
  /\ (last.pre_rl.state = "OPEN" /\ rl_breaker.state = "HALF_OPEN")
       => /\ last.name = "rl_is_open"
          /\ last.at - last.pre_rl.last_failure_time >= recovery_timeout
          /\ ~last.ok
  /\ (/\ last.name = "cb_can_execute"
      /\ last.pre_cb.state = "OPEN"
      /\ last.at - last.pre_cb.last_failure_time < recovery_timeout)
       => (~last.ok /\ breaker.state = "OPEN")
  /\ (last.pre_cb.state = "OPEN" /\ breaker.state = "HALF_OPEN")
       => /\ last.name = "cb_can_execute"
          /\ last.at - last.pre_cb.last_failure_time >= recovery_timeout
          /\ last.ok
  /\ last.name = "tick" => (rl_breaker = last.pre_rl /\ breaker = last.pre_cb)

\* The limiter's breaker has just gone Open -> HalfOpen in an is_open query,
\* while the standalone breaker, still cooling down, has denied before.
C8_Witness ==
  /\ last.name = "rl_is_open"
  /\ last.pre_rl.state = "OPEN"
  /\ rl_breaker.state = "HALF_OPEN"
  /\ breaker.state = "OPEN"
  /\ now - breaker.last_failure_time < recovery_timeout

\* C9 (as claimed): in HalfOpen the breaker closes exactly when the number of
\* successes seen in HalfOpen reaches success_threshold (2, not 1), and
\* failure_count is then 0; for the limiter's breaker as for the standalone one.
C9_Closing ==
  /\ (last.pre_rl.state = "HALF_OPEN" /\ rl_breaker.state = "CLOSED")
       => (hist.rl_half >= success_threshold /\ rl_breaker.failure_count = 0)
  /\ rl_breaker.state = "HALF_OPEN" => hist.rl_half < success_threshold
  /\ (last.pre_cb.state = "HALF_OPEN" /\ breaker.state = "CLOSED"
        /\ last.name = "cb_record_success")
       => (hist.cb_half >= success_threshold /\ breaker.failure_count = 0)
  /\ breaker.state = "HALF_OPEN" => hist.cb_half < success_threshold

\* C10: in HalfOpen a single record_failure opens the breaker, whatever the
\* counters are.  Both breaker classes.
C10_HalfOpenFailure ==
  /\ (last.name = "rl_record_failure" /\ last.pre_rl.state = "HALF_OPEN")
       => rl_breaker.state = "OPEN"
  /\ (last.name = "cb_record_failure" /\ last.pre_cb.state = "HALF_OPEN")
       => breaker.state = "OPEN"

\* The standalone breaker, one success into its probe, has just failed.
C10_Witness ==
  /\ last.name = "cb_record_failure"
  /\ last.pre_cb.state = "HALF_OPEN"
  /\ last.pre_cb.success_count = 1
  /\ breaker.state = "OPEN"

\* C11: in Closed a record_success lowers failure_count by exactly 1, not
\* below 0, and leaves the breaker Closed; and while failures and successes
\* alternate from (Closed, 0) the breaker stays Closed with failure_count 0
\* after a success and 1 after a failure.  Both breaker classes.
C11_Decay ==
  /\ (last.name = "rl_record_success" /\ last.pre_rl.state = "CLOSED") =>
       /\ rl_breaker.state = "CLOSED"
       /\ rl_breaker.failure_count = Max(0, last.pre_rl.failure_count - 1)
  /\ (last.name = "cb_record_success" /\ last.pre_cb.state = "CLOSED") =>
       /\ breaker.state = "CLOSED"
       /\ breaker.failure_count = Max(0, last.pre_cb.failure_count - 1)
  /\ hist.rl_alt < 2 => (rl_breaker.state = "CLOSED" /\ rl_breaker.failure_count = hist.rl_alt)
  /\ hist.cb_alt < 2 => (breaker.state = "CLOSED" /\ breaker.failure_count = hist.cb_alt)

\* A success in Closed has just lowered the limiter breaker's count from 3 to 2.
C11_Witness ==
  /\ last.name = "rl_record_success"
  /\ last.pre_rl.state = "CLOSED"
  /\ last.pre_rl.failure_count = 3
  /\ rl_breaker.failure_count = 2

\* The selection calls of ProxyManager.
Selections == {"get_random_proxy", "get_next_proxy", "force_new_proxy"}

\* C12: the endpoint a call of get_random_proxy, get_next_proxy or
\* force_new_proxy returns is, in the state of the call's health check, not in
\* the failed set, not in the permanently-banned set, and not under a
\* temporary ban that ends in the future.
C12_NoUnavailable ==
  (plast.name \in Selections /\ plast.result # 0) =>
     /\ plast.result \notin failed_proxies
     /\ plast.result \notin banned_proxies
     /\ ~is_proxy_temporarily_banned(proxy_health[plast.result], now)

\* A selection returns an endpoint while another one is failed or
\* permanently banned and a third is under a temporary ban only.
C12_Witness ==
  /\ plast.name \in Selections
  /\ plast.result # 0
  /\ failed_proxies \cup banned_proxies # {}
  /\ \E r \in Proxies \ (failed_proxies \cup banned_proxies) :
       is_proxy_temporarily_banned(proxy_health[r], now)

\* C13: an endpoint with consecutive_failures_threshold failed
\* record_proxy_result calls in a row is not selectable until ban_duration
\* after the last of them, and a health check leaves no ban that has ended:
\* banned_until is cleared and consecutive_failures is 0.
C13_BanLifecycle ==
  /\ [](\A p \in Proxies :
          (/\ phist.run[p] >= consecutive_failures_threshold
           /\ now < phist.at[p] + ban_duration)
             => p \notin healthy(failed_proxies, banned_proxies, proxy_health, now))
  /\ [][(phist'.ops # phist.ops /\ plast'.name \in Selections) =>
          \A p \in Proxies :
             proxy_health'[p].present =>
                \/ /\ proxy_health'[p].banned_until = None
                   /\ phist'.run[p] = proxy_health'[p].consecutive_failures
                \/ now < proxy_health'[p].banned_until]_vars

\* A step that is a call running a recovery pass: _attempt_proxy_recovery
\* itself, or get_random_proxy, which runs one when it finds no healthy
\* endpoint.
RecoveryStep ==
  /\ phist'.ops # phist.ops
  /\ plast'.name \in {"attempt_proxy_recovery", "get_random_proxy"}

\* C14: one recovery pass over the NumProxies endpoints removes at most
\* floor(NumProxies / 4) of them from the failed set, and each endpoint it
\* removes has consecutive_failures 0 and no banned_until afterwards.
C14_RecoveryBound ==
  [][RecoveryStep =>
       /\ Cardinality(failed_proxies \ failed_proxies') <= NumProxies \div 4
       /\ \A p \in failed_proxies \ failed_proxies' :
            /\ proxy_health'[p].consecutive_failures = 0
            /\ proxy_health'[p].banned_until = None]_vars

\* A pass found more candidates than it may recover and recovered
\* floor(NumProxies / 4) of them, one of these under a temporary ban that had
\* not ended.
C14_Witness ==
  /\ plast.name \in {"attempt_proxy_recovery", "get_random_proxy"}
  /\ Cardinality(plast.candidates) > NumProxies \div 4
  /\ Cardinality(plast.recovered) = NumProxies \div 4
  /\ plast.recovered \cap failed_proxies = {}
  /\ \E p \in plast.unbanned :
       /\ now < phist.at[p] + ban_duration
       /\ proxy_health[p].banned_until = None
       /\ proxy_health[p].consecutive_failures = 0

C16_HardBan ==
  (plast.name \in Selections /\ plast.result # 0) => plast.result \notin phist.hard

\* A selection returns an endpoint while a hard-banned one is out of the
\* failed set again and under no temporary ban.
C16_Witness ==
  /\ plast.name \in Selections
  /\ plast.result # 0
  /\ \E p \in phist.hard :
       /\ p \notin failed_proxies
       /\ ~is_proxy_temporarily_banned(proxy_health[p], now)

\* A worker takes the entry of job j from the queue.
Taken(j) ==
  /\ jobs[j] # NoJob
  /\ request_queue # request_queue'
  /\ request_queue' = Take(request_queue, Entry(j))

\* Job j is not after job k in the order (priority value, scheduled_at).
KeyLeq(j, k) ==
  \/ jobs[j].priority < jobs[k].priority
  \/ /\ jobs[j].priority = jobs[k].priority
     /\ jobs[j].scheduled_at <= jobs[k].scheduled_at

\* C17: whenever a worker takes a job from the queue, no job left in the queue
\* is before it in the order (priority value, scheduled_at); so no LOW job is
\* taken while a CRITICAL job is in the queue, whenever the two were enqueued.
C17_PriorityOrder ==
  [][\A j \in 1..MaxJobs :
       Taken(j) => \A f \in BagToSet(request_queue') : f.job # 0 => KeyLeq(j, f.job)]_vars

\* A worker holds a CRITICAL job, not yet admitted, that was enqueued later
\* and is scheduled later than a LOW job still in the queue.
C17_Witness ==
  \E w \in Workers, l \in 1..MaxJobs :
    /\ w.pc = "admit1"
    /\ w.job > l
    /\ jobs[w.job].priority = CRITICAL
    /\ jobs[l].priority = LOW
    /\ jobs[l].scheduled_at < jobs[w.job].scheduled_at
    /\ Entry(l) \in BagToSet(request_queue)

\* C18 (as claimed): while a job's callback runs, the job's scheduled_at is
\* not in the future, however scheduled_at was set.
C18_NoPrematureDispatch ==
  \A w \in Workers : w.pc = "callback" => jobs[w.job].scheduled_at <= Seconds(now)

\* The places where job j is: entries of the eligible queue, entries of the
\* retry queue, threads holding it.
Queued(j) == CopiesIn(Entry(j), request_queue)
Retrying(j) == Cardinality({i \in DOMAIN retry_queue : retry_queue[i] = j})
Holders(j) == {th \in BagToSet(threads) : th.job = j}

\* C19: of a job whose callback fails every time, retry_count is the number
\* of its executions up to max_retries and never more; it is executed at most
\* max_retries + 1 times; until then it is in the eligible queue, in the retry
\* queue or held by a thread, and after the last execution it is in neither
\* queue and only the worker that ran it still holds it, in its finally.
C19_BoundedRetries ==
  \A j \in 1..MaxJobs :
    jobs[j] # NoJob =>
      /\ jobs[j].retry_count <= max_retries
      /\ jobs[j].execs <= max_retries + 1
      /\ jobs[j].retry_count = Min(jobs[j].execs, max_retries)
      /\ jobs[j].execs <= max_retries =>
           Queued(j) + Retrying(j) > 0 \/ Holders(j) # {}
      /\ jobs[j].execs = max_retries + 1 =>
           /\ Queued(j) = 0
           /\ Retrying(j) = 0
           /\ \A th \in Holders(j) : th.kind = "worker" /\ th.pc = "finally"

\* A job has failed max_retries + 1 times and is gone, while the workers go on.
C19_Witness ==
  \E j \in 1..MaxJobs :
    /\ jobs[j].execs = max_retries + 1
    /\ jobs[j].retry_count = max_retries
    /\ Holders(j) = {}
    /\ \E w \in Workers : w.pc = "get"

\* C20: each retry delay _handle_failed_request computes for a job is at
\* least the one it computed before for that job and at most RetryCap, and
\* the job is rescheduled that long after the failure.
C20_BackoffMonotone ==
  [][\A j \in 1..MaxJobs :
       (jobs[j] # NoJob /\ jobs'[j].retry_count # jobs[j].retry_count) =>
          /\ jobs'[j].delay >= jobs[j].delay
          /\ jobs'[j].delay > 0
          /\ jobs'[j].delay <= RetryCap
          /\ jobs'[j].scheduled_at = Seconds(now + jobs'[j].delay)]_vars

\* A job was given its last retry delay, longer than its first.
C20_Witness ==
  \E j \in 1..MaxJobs :
    /\ jobs[j].retry_count = max_retries
    /\ jobs[j].delay = retry_delay(max_retries)
    /\ jobs[j].delay > retry_delay(1)

\* C21 (as claimed): the failure of a job that has exhausted its retries has
\* been delivered to the caller once, and is counted in failed_requests.
C21_TerminalSurfaced ==
  \A j \in 1..MaxJobs :
    (jobs[j] # NoJob /\ jobs[j].execs = max_retries + 1 /\ Holders(j) = {}) =>
       /\ jobs[j].surfaced = 1
       /\ stats.failed_requests >= 1

\* The step in which worker w, at its second admission query, is denied and
\* goes back to its loop.
SecondDenial(w) ==
  /\ w.pc = "admit2"
  /\ threads' = Move(threads, w, Thread("worker"))

\* C22: a second denial puts the job back into the eligible queue with
\* scheduled_at = now + the wait, and changes neither its retry_count, nor
\* total_processed, failed_requests, the request tracker or the counters of
\* the breakers; the callback was not invoked in that dispatch and no thread
\* holds the job any more.
C22_DenialFrame ==
  [][\A w \in Workers : SecondDenial(w) =>
       /\ w.calls = 0
       /\ w.wait > 0
       /\ jobs'[w.job].scheduled_at = Seconds(now) + w.wait
       /\ jobs'[w.job].retry_count = jobs[w.job].retry_count
       /\ jobs'[w.job].execs = jobs[w.job].execs
       /\ CopiesIn(Entry(w.job), request_queue') = CopiesIn(Entry(w.job), request_queue) + 1
       /\ retry_queue' = retry_queue
       /\ stats' = stats
       /\ requests' = requests
       /\ rl_breaker'.failure_count = rl_breaker.failure_count
       /\ rl_breaker'.last_failure_time = rl_breaker.last_failure_time
       /\ breaker' = breaker
       /\ Cardinality(Holders(w.job)') = Cardinality(Holders(w.job)) - 1]_vars

\* A job denied twice is back in the eligible queue, never executed.
C22_Witness ==
  \E j \in 1..MaxJobs :
    /\ jobs[j].requeues >= 1
    /\ jobs[j].execs = 0
    /\ jobs[j].retry_count = 0
    /\ Queued(j) = 1

\* The step in which force_process_all returns True.
DrainReturns == hist'.drains = hist.drains + 1

\* C23 (as claimed): when force_process_all returns True and every callback
\* so far succeeded, all the jobs enqueued have been processed, none failed,
\* the eligible queue is empty, nothing is in flight and no worker holds a job
\* it took from the queue.
C23_DrainCompletion ==
  [][(DrainReturns /\ stats.failed_requests = 0) =>
       /\ stats.total_processed = NumJobs
       /\ request_queue = EmptyBag
       /\ stats.active_requests = 0
       /\ \A w \in Workers : w.job = 0]_vars

\* A job that succeeded or failed without retries left: every failure with
\* retries left raises retry_count with execs, the last execution raises execs
\* alone.
Terminal(j) == jobs[j].execs = jobs[j].retry_count + 1

\* C24 (as claimed): when force_process_all returns True no job waits for a
\* retry, in retry_queue or with the retry processor in its backoff sleep, and
\* every job enqueued has succeeded or failed terminally.
C24_NoStragglers ==
  [][DrainReturns =>
       /\ retry_queue = <<>>
       /\ \A r \in RetryProcessors : r.job = 0
       /\ \A j \in 1..MaxJobs : jobs[j] # NoJob => Terminal(j)]_vars

\* The step in which worker w invokes the callback of the job it holds.
CallbackStarts(w) ==
  /\ w.pc = "jitter"
  /\ threads' = Move(threads, w, [w EXCEPT !.pc = "callback", !.calls = @ + 1])

\* The step in which the retry processor r puts its job into request_queue.
Reinserts(r) ==
  /\ r.pc = "sleep"
  /\ threads' = Move(threads, r, Thread("retry"))

\* C25 (as claimed): while the queue is stopped no worker invokes a callback
\* and the retry processor puts no job back into the eligible queue.
C25_ShutdownStopsDispatch ==
  [][(hist.stops >= 1 /\ ~running) =>
       /\ \A w \in Workers : ~CallbackStarts(w)
       /\ \A r \in RetryProcessors : ~Reinserts(r)]_vars

\* C26 (as claimed): every job accepted by add_request succeeds or fails
\* terminally in the end, or is reported as abandoned (here: counted in the
\* log line of a clear_queue call).
C26_NoJobLost ==
  \A j \in 1..MaxShutdownJobs :
    (jobs[j] # NoJob) ~> (Terminal(j) \/ jobs[j].cleared >= 1)

\* The step in which worker w ends its _update_adaptive_delay.
PaceEnds(w) ==
  /\ w.pc \in {"finally", "pace_rate", "pace_store"}
  /\ threads' = Move(threads, w, Thread("worker"))

\* C27 (as claimed): adaptive_delay is always between 1.0 and 10.0, and the
\* update that follows an executed job multiplies it by 1.2 (capped at 10.0)
\* when the success rate of the last hour is below 0.8, by 0.9 (floored at
\* 1.0) when it is above 0.95, and leaves it unchanged otherwise.
C27_AdaptivePacing ==
  /\ [](adaptive_delay.den <= adaptive_delay.num
        /\ adaptive_delay.num <= 10 * adaptive_delay.den)
  /\ [][\A w \in Workers : PaceEnds(w) =>
          adaptive_delay' = update_adaptive_delay(adaptive_delay, requests, now)]_vars

\* The step in which the callback invocation of worker w ends and its outcome
\* is processed.
Executes(w) ==
  /\ w.pc = "callback"
  /\ threads' = Move(threads, w, [w EXCEPT !.pc = "finally"])

\* C28: an execution of a job's callback, whether it returns or raises, makes
\* one record_request call (one more tracker entry and one record_success or
\* record_failure on the limiter's breaker), one increment of total_processed
\* and at most one _handle_failed_request call; so the tracker entries, the
\* executions and total_processed are equal in number.
C28_ExactlyOnce ==
  /\ [](Len(requests) = stats.total_processed /\ hist.handled = stats.failed_requests)
  /\ [][\A w \in Workers : Executes(w) =>
          /\ Len(requests') = Len(requests) + 1
          /\ \/ rl_breaker' = rl_record_success_state(rl_breaker)
             \/ rl_breaker' = rl_record_failure_state(rl_breaker, now)
          /\ stats'.total_processed = stats.total_processed + 1
          /\ jobs'[w.job].execs = jobs[w.job].execs + 1
          /\ hist'.handled - hist.handled \in {0, 1}
          /\ hist'.raised > hist.raised => hist'.handled = hist.handled + 1]_vars

\* A callback has raised and the job is in the retry queue.
C28_Witness ==
  /\ hist.raised = 1
  /\ stats.total_processed >= 2
  /\ retry_queue # <<>>

\* The threads that have job j in hand: the workers from request_queue.get()
\* until the outcome of the callback is handled, the retry processor from
\* retry_queue.get() to its put.  (A worker in its finally block is done with
\* the job.)
InHand(j) ==
  {th \in BagToSet(threads) :
     th.job = j /\ th.pc \notin {"finally", "pace_rate", "pace_load", "pace_store"}}

RECURSIVE Copies(_)
Copies(S) ==
  IF S = {} THEN 0
  ELSE LET th == CHOOSE x \in S : TRUE IN CopiesIn(th, threads) + Copies(S \ {th})

\* The number of places job j is in.
Places(j) == Queued(j) + Retrying(j) + Copies(InHand(j))

RecordStep == phist'.ops # phist.ops /\ plast'.name = "record_proxy_result"

\* C30 (as claimed): the health entry of every endpoint loaded stays present,
\* every record_proxy_result call raises the endpoint's stored total_requests
\* by 1, and a failed one its stored consecutive_failures by 1.
C30_HealthNeverDeleted ==
  /\ [](\A p \in Proxies : proxy_health[p].present)
  /\ [][RecordStep =>
          /\ proxy_health'[plast'.proxy].total_requests =
               proxy_health[plast'.proxy].total_requests + 1
          /\ ~plast'.ok =>
               proxy_health'[plast'.proxy].consecutive_failures =
                 proxy_health[plast'.proxy].consecutive_failures + 1]_vars

\* C31 (as claimed, its particular case): of two can_make_request calls in
\* progress at once that both began with at least 1 token in every bucket, at
\* least one is allowed, as the first of any sequential order of them would be.
C31_Linearizable ==
  \A c, d \in Callers :
    (/\ c # d
     /\ adm[c].pc = "return" /\ adm[c].full
     /\ adm[d].pc = "return" /\ adm[d].full)
      => (adm[c].can_proceed \/ adm[d].can_proceed)

\* C32 (as claimed): an endpoint that mark_proxy_failed put into the failed set
\* is eventually eligible for selection again, with no reset by an operator.
\* An endpoint whose failure is not yet RecoveryAge old when the clock of the
\* model ends is left out.
C32_SoftRecovers ==
  \A p \in Proxies :
    (p \in failed_proxies /\ p \notin phist.hard)
      ~> (\/ p \in healthy(failed_proxies, banned_proxies, proxy_health, now)
          \/ now - proxy_health[p].last_failure <= RecoveryAge)

\* C33 (as claimed): get_random_proxy never raises, whatever endpoints are in
\* the failed set; it returns None only when no endpoint is healthy after its
\* recovery pass.
C33_DegradesToNone ==
  plast.name = "get_random_proxy" =>
    /\ plast.ok
    /\ plast.result = 0 =>
         healthy(failed_proxies, banned_proxies, proxy_health, now) = {}

\* C34: a can_make_request call that finds the breaker Open with its cooldown
\* not elapsed returns (False, max(0, recovery_timeout - (now - last_failure_time)))
\* and leaves the three buckets as they were.
OpenCall ==
  /\ last.name = "can_make_request"
  /\ last.pre_rl.state = "OPEN"
  /\ last.at - last.pre_rl.last_failure_time < recovery_timeout

C34_OpenShortCircuits ==
  OpenCall =>
    /\ ~last.ok
    /\ last.wait = Seconds(Max(0, recovery_timeout - (last.at - last.pre_rl.last_failure_time)))
    /\ tokens = last.pre_tokens
    /\ last_refill = last.pre_refill

\* Such a call, made after the failure that opened the breaker and at a
\* moment when a refill of the minute bucket was due.
C34_Witness ==
  /\ OpenCall
  /\ last.at > last.pre_rl.last_failure_time
  /\ last.pre_tokens["minute"] < capacity("minute") * Unit
  /\ last.at > last.pre_refill["minute"]
  /\ ~last.ok

\* C35 (as claimed): a can_make_request call that the buckets deny returns a
\* wait greater than 0, the largest TokenBucket.wait_time(1) of the buckets
\* that gave no token, and a call that is allowed returns a wait of 0.
C35_BindingWait ==
  \A c \in Callers :
    adm[c].pc = "return" =>
      /\ adm[c].can_proceed => adm[c].max_wait = 0
      /\ ~adm[c].can_proceed => adm[c].max_wait > 0

\* C36 (as claimed): the delay of a job's k-th retry is
\* min(RetryCap, RetryBase * 2^(k - 1)), the backoff taken from the retry_count
\* before its increment: 30 s, 60 s, 120 s.
C36_BackoffFormula ==
  \A j \in DOMAIN jobs :
    jobs[j].retry_count >= 1 =>
      jobs[j].delay = Min(RetryCap, RetryBase * Pow2(jobs[j].retry_count - 1))

\* The weight as claimed: max(1, round(success_rate * 10)), halves rounded to
\* the even neighbour, and 5 for an endpoint with no recorded outcome.
rounded_weight(h) ==
  IF h.present /\ h.recent_results # <<>>
    THEN LET k == 10 * successes(h.recent_results)
             n == Len(h.recent_results)
             q == k \div n
             r == k % n
         IN Max(1, IF 2 * r > n \/ (2 * r = n /\ q % 2 = 1) THEN q + 1 ELSE q)
    ELSE DefaultWeight

\* C37 (as claimed): when get_random_proxy has chosen among two or more healthy
\* endpoints, every healthy endpoint e was in the list it drew from
\* max(1, round(recent_success_rate(e) * 10)) times, or 5 times with no recorded
\* outcome, and so at least once.
C37_SelectionWeights ==
  LET H == healthy(failed_proxies, banned_proxies, proxy_health, now)
  IN (plast.name = "get_random_proxy" /\ plast.ok /\ Cardinality(H) > 1) =>
       \A e \in H :
         /\ CopiesIn(e, weighted_proxies(H, proxy_health)) = rounded_weight(proxy_health[e])
         /\ CopiesIn(e, weighted_proxies(H, proxy_health)) >= 1

\* C38 (as claimed): a call of get_proxy_stats or export_proxy_health_report
\* returns its report and leaves the pool lock free for the workers' calls.
C38_SummaryReturns ==
  (pstat.pc # "idle") ~> (pstat.pc = "idle" /\ pstat.returns > 0 /\ lock = Free)

\* C39 (as claimed, its first part): once stop() has been called on a started
\* queue and every thread it joins has ended, request_queue holds no sentinel (0, None).
Sentinels == {e \in BagToSet(request_queue) : e.job = 0}

C39_CleanStop ==
  (hist.starts > 0 /\ hist.stops > 0 /\ ~running /\ threads = EmptyBag) => Sentinels = {}

====
